---- MODULE Spec2Model ----
(***************************************************************************)
(* Model of the cursor-git extension: the typing-speed ChangeDetector      *)
(* (edit classification) and the GitManager (stage / commit pipeline).     *)
(*                                                                         *)
(* Lengths stand for strings wherever the code only looks at lengths       *)
(* (change.text.length, change.rangeLength).  Time is in milliseconds, as  *)
(* returned by Date.now().                                                 *)
(***************************************************************************)
EXTENDS Integers, Sequences, FiniteSets, TLC

(* ------------------------------ bounds --------------------------------- *)
MaxTime == 2501
MaxChars == 20
MaxChanges == 2
MaxProcs == 1
MaxRuns == 2
MaxAttempts == 2
MaxFiles == 2
MaxElapsed == 1760

(* ----------------- configuration (package defaults) -------------------- *)
sessionTimeout == 2000
minCharacters == 10
speedThreshold == 150
MaxSessions == 10

(* clock increments between two events: fast typing, idle timeout *)
TimeSteps == {500, 2001}

(* content changes delivered by the editor: text length, replaced length *)
Changes ==
  { [text |-> 0,  rangeLength |-> 1],
    [text |-> 0,  rangeLength |-> 3],
    [text |-> 2,  rangeLength |-> 2],
    [text |-> 4,  rangeLength |-> 0],
    [text |-> 10, rangeLength |-> 0],
    [text |-> 51, rangeLength |-> 0] }

RECURSIVE SeqsUpTo(_, _)
SeqsUpTo(S, n) ==
  IF n = 0 THEN { <<>> }
  ELSE LET shorter == SeqsUpTo(S, n - 1)
       IN shorter \cup { Append(q, x) : q \in { r \in shorter : Len(r) = n - 1 }, x \in S }

\* event.kind is Undo or anything else (Redo, undefined); an Undo event is
\* handled without looking at its content changes
Events ==
  [ kind : { "none" }, contentChanges : SeqsUpTo(Changes, MaxChanges) ]
    \cup [ kind : { "undo" }, contentChanges : SeqsUpTo(Changes, 1) ]

VARIABLES
  clock,           \* Date.now()
  isEnabled,       \* ChangeDetector.isEnabled
  subscribed,      \* the listeners in ChangeDetector.disposables are registered
  isHumanTyping,   \* ChangeDetector.isHumanTyping
  currentSession,  \* <<>> (null) or <<[startTime, characters]>>
  typingSessions,  \* history of finalized sessions
  lastUserAction,  \* ChangeDetector.lastUserAction
  lastWPM,         \* <<>> (null) or <<[c, d]>>: the value (c/5)/(d/60000)
  lastTypingMode,  \* <<>> (null) or <<BOOLEAN>>
  lastOp,          \* observation of the last handler run (not program state)
  lastCommitHash,  \* ChangeDetector.lastCommitHash (0 = null)
  notifications,   \* messages passed to showInformationMessage
  config,          \* workspace configuration 'cursorGit'
  gitIdentity,     \* git config user.name / user.email ("" = unset)
  analysed,        \* last call of analyzeChanges: its files and its result
  dirty,           \* paths whose working-tree content differs from the index
  index,           \* paths staged in the index (index differs from HEAD)
  commits,         \* the branch: commits from oldest to HEAD
  nextHash,        \* number of commits the backend has created so far
  started,         \* number of orchestrations started so far
  procs,           \* in-flight orchestrations, each suspended at an await
  extension        \* the extension's life cycle and its registered commands

detVars == << isEnabled, subscribed, isHumanTyping, currentSession, typingSessions,
              lastUserAction, lastWPM, lastTypingMode >>

gitVars == << lastCommitHash, notifications, config, gitIdentity, analysed, extension,
              dirty, index, commits,
              nextHash, started, procs >>

vars == << clock, detVars, lastOp, gitVars >>

(* --------------------------- ChangeDetector ---------------------------- *)

DetState ==
  [ isHumanTyping  |-> isHumanTyping,
    currentSession |-> currentSession,
    typingSessions |-> typingSessions,
    lastUserAction |-> lastUserAction,
    lastWPM        |-> lastWPM,
    lastTypingMode |-> lastTypingMode ]

Abs(x) == IF x < 0 THEN -x ELSE x

\* (c, d) pairs with 12000 * c = speedThreshold * d for which the double
\* computation (c / 5) / (d / 60000) rounds to a value above the threshold.
FloatRoundsAbove(c, d) == << c, d >> \in { << 11, 880 >>, << 22, 1760 >> }

\* calculateWPM with words = characters * 5
WpmExceeds_TimesFive(c, d) ==
  IF d = 0 THEN c > 0 ELSE 300000 * c > speedThreshold * d

\* calculateWPM with the duration taken as tenths of a minute
WpmExceeds_TenFold(c, d) ==
  IF d = 0 THEN c > 0 ELSE 120000 * c > speedThreshold * d

\* wpm > speedThreshold, for wpm = calculateWPM(c, d) computed in doubles:
\* d = 0 gives Infinity for c > 0 and NaN for c = 0.
WpmExceeds(c, d) ==
  IF d = 0 THEN c > 0
  ELSE \/ 12000 * c > speedThreshold * d
       \/ 12000 * c = speedThreshold * d /\ FloatRoundsAbove(c, d)

\* Math.abs(wpm - lastWPM) > 0.1 on the values (c/5)/(d/60000)
WpmDiffers(w1, w2) ==
  IF w1.d = 0 /\ w2.d = 0 THEN FALSE
  ELSE IF w1.d = 0 \/ w2.d = 0 THEN ~(w1.d = 0 /\ w1.c = 0) /\ ~(w2.d = 0 /\ w2.c = 0)
  ELSE Abs(w1.c * w2.d - w2.c * w1.d) > (w1.d * w2.d) \div 120000

\* isHumanOnlyAction without the copy/paste rule
IsHumanOnlyAction_NoPaste(change) ==
  \/ change.text = 0 /\ change.rangeLength > 0
  \/ change.text = 0 /\ change.rangeLength = 1
  \/ change.text <= 2 /\ change.rangeLength <= 2

IsHumanOnlyAction(change) ==
  \/ change.text = 0 /\ change.rangeLength > 0
  \/ change.text = 0 /\ change.rangeLength = 1
  \/ change.text <= 2 /\ change.rangeLength <= 2
  \/ change.text > 50 /\ change.rangeLength = 0

\* flagHumanAction without the assignment isHumanTyping = true
FlagHumanAction_KeepsMode(d, now) ==
  [ d EXCEPT !.lastUserAction = now,
             !.lastWPM = <<>>,
             !.lastTypingMode = <<>> ]

FlagHumanAction(d, now) ==
  [ d EXCEPT !.isHumanTyping = TRUE,
             !.lastUserAction = now,
             !.lastWPM = <<>>,
             !.lastTypingMode = <<>> ]

\* finalizeCurrentSession without the shift of the oldest entry
FinalizeCurrentSession_NoShift(d, now) ==
  IF d.currentSession = <<>> THEN d
  ELSE LET s == d.currentSession[1]
       IN [ d EXCEPT !.typingSessions =
                       Append(d.typingSessions,
                              [ timestamp |-> s.startTime,
                                characters |-> s.characters,
                                duration |-> now - s.startTime ]),
                     !.currentSession = <<>> ]

FinalizeCurrentSession(d, now) ==
  IF d.currentSession = <<>> THEN d
  ELSE LET s == d.currentSession[1]
           pushed == Append(d.typingSessions,
                            [ timestamp |-> s.startTime,
                              characters |-> s.characters,
                              duration |-> now - s.startTime ])
       IN [ d EXCEPT !.typingSessions =
                        IF Len(pushed) > MaxSessions THEN Tail(pushed) ELSE pushed,
                     !.currentSession = <<>> ]

\* processChange without the minCharacters test
ProcessChangeBranch_NoMinimum(d, change, timestamp) ==
  IF IsHumanOnlyAction(change) THEN "human"
  ELSE IF d.currentSession = <<>> THEN "open"
  ELSE IF timestamp - d.currentSession[1].startTime > sessionTimeout THEN "timeout"
  ELSE IF WpmExceeds(d.currentSession[1].characters + change.text,
                     timestamp - d.currentSession[1].startTime)
       THEN "ai" ELSE "slow"

\* The branch processChange takes for one content change.
ProcessChangeBranch(d, change, timestamp) ==
  IF IsHumanOnlyAction(change) THEN "human"
  ELSE IF d.currentSession = <<>> THEN "open"
  ELSE IF timestamp - d.currentSession[1].startTime > sessionTimeout THEN "timeout"
  ELSE IF d.currentSession[1].characters + change.text >= minCharacters
       THEN IF WpmExceeds(d.currentSession[1].characters + change.text,
                          timestamp - d.currentSession[1].startTime)
            THEN "ai" ELSE "slow"
  ELSE "insufficient"

ProcessChange(d, change, timestamp) ==
  LET branch == ProcessChangeBranch(d, change, timestamp)
      opened == << [ startTime |-> timestamp, characters |-> change.text ] >>
  IN CASE branch = "human" -> FlagHumanAction(d, timestamp)
       [] branch = "open" -> [ d EXCEPT !.currentSession = opened ]
       [] branch = "timeout" ->
            [ FinalizeCurrentSession(d, timestamp) EXCEPT !.currentSession = opened ]
       [] OTHER ->
            LET s == d.currentSession[1]
                chars == s.characters + change.text
                elapsed == timestamp - s.startTime
                added == [ d EXCEPT !.currentSession =
                                      << [ s EXCEPT !.characters = chars ] >> ]
                wpm == [ c |-> chars, d |-> elapsed ]
                newTypingMode == ~WpmExceeds(chars, elapsed)
            IN IF branch = "insufficient" THEN added
               ELSE [ added EXCEPT
                        !.lastWPM =
                           IF d.lastWPM = <<>> \/ WpmDiffers(wpm, d.lastWPM[1])
                           THEN << wpm >> ELSE d.lastWPM,
                        !.lastTypingMode =
                           IF d.lastTypingMode = <<>> \/ d.lastTypingMode[1] # newTypingMode
                           THEN << newTypingMode >> ELSE d.lastTypingMode,
                        !.isHumanTyping = newTypingMode ]

\* analyzeTypingSpeed: the loop over event.contentChanges
RECURSIVE ProcessChanges(_, _, _)
ProcessChanges(d, changes, now) ==
  IF changes = <<>> THEN d
  ELSE ProcessChanges(ProcessChange(d, Head(changes), now), Tail(changes), now)

AnalyzeTypingSpeed(d, event, now) ==
  IF event.kind = "undo" THEN FlagHumanAction(d, now)
  ELSE ProcessChanges(d, event.contentChanges, now)

\* The branch each content change of the event took, in order.
RECURSIVE ChangeBranches(_, _, _)
ChangeBranches(d, changes, now) ==
  IF changes = <<>> THEN <<>>
  ELSE << ProcessChangeBranch(d, Head(changes), now) >>
       \o ChangeBranches(ProcessChange(d, Head(changes), now), Tail(changes), now)

NoChange == [ text |-> 0, rangeLength |-> 0 ]

\* what the last handler run was: the operation, the branches its content
\* changes took, its last content change and the mode it started from
Observed(op, steps, lastChange) ==
  [ op |-> op, steps |-> steps, lastChange |-> lastChange, modeBefore |-> isHumanTyping ]

SessionChars(d) == IF d.currentSession = <<>> THEN 0 ELSE d.currentSession[1].characters

SetDet(d) ==
  /\ isHumanTyping' = d.isHumanTyping
  /\ currentSession' = d.currentSession
  /\ typingSessions' = d.typingSessions
  /\ lastUserAction' = d.lastUserAction
  /\ lastWPM' = d.lastWPM
  /\ lastTypingMode' = d.lastTypingMode

(* ----------------------------- GitManager ------------------------------ *)

\* paths and glob patterns are sequences of one-character strings
PathTs == << "a", ".", "t", "s" >>
PathLog == << "b", ".", "l", "o", "g" >>
Paths == { PathTs, PathLog }

\* cursorGit.excludePatterns: "*.log", "*.tmp", "node_modules/**"
excludePatterns ==
  << << "*", ".", "l", "o", "g" >>,
     << "*", ".", "t", "m", "p" >>,
     << "n", "o", "d", "e", "_", "m", "o", "d", "u", "l", "e", "s", "/", "*", "*" >> >>

\* new RegExp(pattern.replace(/\*/g, '.*').replace(/\?/g, '.')): the regular
\* expression as a sequence of tokens "star" (.*), "any" (.) or a literal.
RegexOf(pattern) ==
  [ i \in 1..Len(pattern) |->
      IF pattern[i] = "*" THEN "star"
      ELSE IF pattern[i] \in { "?", "." } THEN "any"
      ELSE pattern[i] ]

\* the regular expression matches a prefix of str
RECURSIVE MatchPrefix(_, _)
MatchPrefix(regex, str) ==
  IF regex = <<>> THEN TRUE
  ELSE IF Head(regex) = "star"
       THEN \/ MatchPrefix(Tail(regex), str)
            \/ str # <<>> /\ MatchPrefix(regex, Tail(str))
  ELSE IF str = <<>> THEN FALSE
  ELSE IF Head(regex) = "any" THEN MatchPrefix(Tail(regex), Tail(str))
  ELSE Head(regex) = Head(str) /\ MatchPrefix(Tail(regex), Tail(str))

\* regex.test(file): an unanchored search
RegexTest(regex, file) ==
  \E i \in 1..(Len(file) + 1) : MatchPrefix(regex, SubSeq(file, i, Len(file)))

FilterExcludedFiles(files, patterns) ==
  IF Len(patterns) = 0 THEN files
  ELSE { file \in files :
           ~(\E k \in 1..Len(patterns) : RegexTest(RegexOf(patterns[k]), file)) }

\* a message: where it comes from, and the files it was synthesized from
Msg(src, files) == [ src |-> src, files |-> files ]

NoMsg == Msg("", {})

\* values thrown by the backend: an Error with a message, or a non-Error
Thrown == { [ isError |-> TRUE, message |-> "backend failure" ],
            [ isError |-> FALSE, message |-> "" ] }

\* error instanceof Error ? error.message : 'Unknown error'
ErrorString(e) == IF e.isError THEN e.message ELSE "Unknown error"

NoThrown == [ isError |-> FALSE, message |-> "" ]

\* a CommitResult value; error "" and hash 0 stand for absent fields
Return(success, message, error, hash) ==
  [ kind |-> "return", success |-> success, message |-> message,
    error |-> error, hash |-> hash, thrown |-> NoThrown ]

Throw(e) ==
  [ kind |-> "throw", success |-> FALSE, message |-> NoMsg,
    error |-> "", hash |-> 0, thrown |-> e ]

NoResult ==
  [ kind |-> "none", success |-> FALSE, message |-> NoMsg, error |-> "", hash |-> 0,
    thrown |-> NoThrown ]

\* commitChanges with a catch block that rethrows
CommitChangesCatch_Rethrows(e) == Throw(e)

\* catch block of commitChanges
CommitChangesCatch(e) == Return(FALSE, NoMsg, ErrorString(e), 0)

\* catch block of stageAndCommit
StageAndCommitCatch(e) == Return(FALSE, NoMsg, ErrorString(e), 0)

NoChangesResult == Return(FALSE, Msg("No changes to commit", {}), "No modified files", 0)

StageFailedResult == Return(FALSE, NoMsg, "Failed to stage files", 0)

NothingStagedResult ==
  Return(FALSE, Msg("No staged changes to commit", {}), "No staged changes", 0)

\* git status: modified, created, renamed and deleted paths; staged paths
StatusChanged == dirty \cup index

StatusStaged == index

\* ambient git identity and configured suffix
UserName == "dev"
UserEmail == "dev@example.com"
aiAuthorSuffix == "(agent)"

showNotifications == TRUE

\* identities git config can hold; "" is an unset key
Identities ==
  { [ name |-> UserName, email |-> UserEmail ],
    [ name |-> "ops", email |-> "ops@example.com" ],
    [ name |-> "", email |-> "" ] }

\* values of cursorGit.aiAuthorSuffix
Suffixes == { aiAuthorSuffix, "(bot)" }

\* git.getConfig(key) answering with a value read once and kept
GetConfig_Cached(key) == IF key = "user.name" THEN UserName ELSE UserEmail

\* git.getConfig(key): the value of the key now
GetConfig(key) == IF key = "user.name" THEN gitIdentity.name ELSE gitIdentity.email

\* value || fallback
ValueOr(value, fallback) == IF value = "" THEN fallback ELSE value

\* getAIAuthor on top of getCurrentAuthor; the name is name + ' ' + suffix.
\* (Its own catch block is dead code: getCurrentAuthor never throws.)
AIAuthor(name, email, suffix) == [ name |-> << name, suffix >>, email |-> email ]

\* the ambient values an author was derived from, as observed at the reads
NoReads == [ name |-> "", email |-> "", suffix |-> "", failed |-> FALSE ]

ProcIdle ==
  [ pc |-> "idle", origin |-> "none", custom |-> FALSE, entered |-> "none",
    modifiedFiles |-> {}, toAdd |-> {}, stagedFiles |-> {},
    message |-> NoMsg, suffix |-> "", authorName |-> "", authorEmail |-> "",
    reads |-> NoReads, result |-> NoResult,
    addCalled |-> FALSE, addFailed |-> FALSE, commitCalled |-> FALSE,
    modeAtStart |-> TRUE,
    \* what the call did and saw (not program state)
    previous |-> "none",     \* how the call before it ended, if it ran alone
    stagedRead |-> "none",   \* commitChanges' read of status.staged
    added |-> {},            \* paths the call itself moved into the index
    genCalled |-> FALSE,     \* executeCommand was called
    genFailed |-> FALSE,     \* ... and threw or returned nothing usable
    statusFailed |-> FALSE,  \* getStatus threw inside getModifiedFiles
    sessionsAtStart |-> << >>, \* the typing sessions when a save started it
    notice |-> 0,            \* the notification whose 'Revert' started it
    due |-> 0 ]              \* when the timer that starts it expires

Free(p) == procs[p].pc \in { "idle", "done" }

Active == { p \in DOMAIN procs : ~Free(p) }

FreeSlot(p) == Free(p) /\ \A q \in DOMAIN procs : q < p => ~Free(q)

\* room for one more orchestration within the bound on runs
CanStart == started < MaxRuns

\* shouldAutoCommit answering true for every commitFrequency
ShouldAutoCommit_Always == TRUE

\* shouldAutoCommit
ShouldAutoCommit ==
  CASE config.commitFrequency = "immediate" -> TRUE
    [] config.commitFrequency = "onSave" -> TRUE
    [] config.commitFrequency = "manual" -> FALSE
    [] OTHER -> TRUE

\* handleFileSave committing whatever the flag says
IsAIAtSave_Always == TRUE

\* handleFileSave: pendingChanges is never written, so pendingChanges.get()
\* is undefined and isAI is (isHumanTyping === false)
IsAIAtSave == (isHumanTyping = FALSE)

\* A settled orchestration: its locals are gone, what it did is kept.
Done(rec, r) ==
  [ ProcIdle EXCEPT !.pc = "done", !.origin = rec.origin, !.entered = rec.entered,
                    !.modifiedFiles = rec.modifiedFiles, !.addCalled = rec.addCalled,
                    !.addFailed = rec.addFailed, !.commitCalled = rec.commitCalled,
                    !.modeAtStart = rec.modeAtStart, !.custom = rec.custom,
                    !.previous = rec.previous, !.stagedRead = rec.stagedRead,
                    !.added = rec.added, !.genCalled = rec.genCalled,
                    !.genFailed = rec.genFailed,
                    !.statusFailed = rec.statusFailed, !.notice = rec.notice,
                    !.result = r ]

\* The value an orchestration hands to its caller, and the caller's
\* continuation: ChangeDetector.commitChanges records the hash and notifies.
FinishProc(p, rec, outcome) ==
  LET r == IF rec.entered = "stageAndCommit" /\ outcome.kind = "throw"
           THEN StageAndCommitCatch(outcome.thrown) ELSE outcome
      committed == rec.origin \in { "save", "deferred" } /\ r.kind = "return" /\ r.success
  IN /\ procs' = [ procs EXCEPT ![p] = Done(rec, r) ]
     /\ lastCommitHash' = IF committed THEN r.hash ELSE lastCommitHash
     /\ notifications' = IF committed /\ showNotifications
                         THEN Append(notifications, r.message) ELSE notifications

Goto(p, rec, pc) ==
  /\ procs' = [ procs EXCEPT ![p] = [ rec EXCEPT !.pc = pc ] ]
  /\ UNCHANGED << lastCommitHash, notifications >>

\* generateHeuristicCommitMessage(files)
HeuristicMessage(files) == Msg("heuristic", files)

\* git add: the listed paths that differ from the index become staged
GitAdd(paths) ==
  /\ index' = index \cup (paths \cap dirty)
  /\ dirty' = dirty \ paths

\* what executeCommand('cursor.generateGitCommitMessage') can do: return a
\* string with text, a blank string, a value that is no string, or throw
CommandResults == { "string", "blank", "nonstring", "throws" }

\* typeof result === 'string' && result.trim()
IsUsableResult(result) == result = "string"

\* the error generateCursorCommitMessage throws for an unusable result, and
\* an error thrown by the command itself
GeneratorError ==
  [ isError |-> TRUE, message |-> "Cursor AI command did not return a message" ]

GeneratorThrown == [ isError |-> TRUE, message |-> "generator failure" ]

Resolved(message) == [ kind |-> "message", message |-> message, thrown |-> NoThrown ]

Rejected(e) == [ kind |-> "throw", message |-> NoMsg, thrown |-> e ]

\* generateCursorCommitMessage after its executeCommand call
GenerateCursorCommitMessage(result) ==
  IF result = "throws" THEN Rejected(GeneratorThrown)
  ELSE IF IsUsableResult(result) THEN Resolved(Msg("cursor", {}))
  ELSE Rejected(GeneratorError)

\* generateCommitMessage letting the generator's error through
GenerateCommitMessageCatch_Rethrows(e, files) == Rejected(e)

\* generateCommitMessage: the catch block logs the error and falls through
\* to the heuristic message
GenerateCommitMessageCatch(e, files) == Resolved(HeuristicMessage(files))

\* the paths a git add of these paths moves into the set of staged paths
NewlyStaged(paths) == (paths \cap dirty) \ index

\* stageFiles up to its git.add call: the paths to add; {} means it returns
\* true without calling the backend
StageFilesToAdd(files) ==
  IF files = {} THEN {} ELSE FilterExcludedFiles(files, excludePatterns)

\* stageAndCommit without the modifiedFiles.length === 0 test
StageAndCommitBranch_NoEmptyTest(files) ==
  IF config.autoStage /\ StageFilesToAdd(files) # {} THEN "add" ELSE "commit"

\* stageAndCommit after its getModifiedFiles(): fail fast, stage, or go on
\* to commitChanges
StageAndCommitBranch(files) ==
  IF files = {} THEN "noChanges"
  ELSE IF config.autoStage /\ StageFilesToAdd(files) # {} THEN "add"
  ELSE "commit"

\* commitChanges once the message is resolved: getAIAuthor reads the suffix
\* and issues the first getConfig
ToAuthor(rec, message) ==
  [ rec EXCEPT !.message = message, !.suffix = config.aiAuthorSuffix,
               !.reads = [ NoReads EXCEPT !.suffix = config.aiAuthorSuffix ] ]

\* How the orchestration before a new one ended, when the new one starts
\* with no other one in flight: it created a commit, or it did not.
Previous ==
  IF Active # {} THEN "none"
  ELSE IF \E q \in DOMAIN procs :
            /\ procs[q].pc = "done" /\ procs[q].entered = "stageAndCommit"
            /\ procs[q].result.success /\ procs[q].result.hash # 0
       THEN "committed"
  ELSE IF \E q \in DOMAIN procs :
            procs[q].pc = "done" /\ procs[q].entered = "stageAndCommit"
       THEN "notCommitted"
  ELSE "none"

\* commitChanges without the stagedFiles.length === 0 test
CommitChangesBranch_NoEmptyTest(staged) == "message"

\* commitChanges after its getStatus(): fail with 'No staged changes', or go
\* on to resolve the message
CommitChangesBranch(staged) ==
  IF staged = {} THEN "nothingStaged" ELSE "message"

\* every trigger gated like a save
EntryPoint_AllGated(origin) ==
  IF isEnabled /\ ShouldAutoCommit /\ IsAIAtSave
  THEN CASE origin = "save" -> "cd_status"
         [] origin = "chat" -> "sc_status"
         [] OTHER -> "cc_status"
  ELSE "done"

\* where a trigger's handler first awaits: a save goes through the policy
\* and the mode, the chat request and the commitNow command call the
\* GitManager unconditionally
EntryPoint(origin) ==
  CASE origin = "save" -> IF isEnabled /\ ShouldAutoCommit /\ IsAIAtSave
                          THEN "cd_status" ELSE "done"
    [] origin = "chat" -> "sc_status"
    [] OTHER -> "cc_status"

(* ---- entry points ---- *)

\* fileSaveListener -> handleFileSave
DidSaveTextDocument ==
  \E p \in DOMAIN procs :
    /\ subscribed
    /\ FreeSlot(p) /\ CanStart
    /\ LET rec == [ ProcIdle EXCEPT !.origin = "save", !.modeAtStart = isHumanTyping,
                                      !.previous = Previous,
                                      !.sessionsAtStart =
                                         << currentSession, typingSessions >> ]
       IN Goto(p, rec, EntryPoint("save"))
    /\ started' = started + 1
    /\ UNCHANGED << clock, detVars, lastOp, config, gitIdentity, analysed, extension, dirty,
                   index, commits, nextHash >>

\* ChatInterface.handleCommitRequest(message) -> stageAndCommit(message)
ChatCommit ==
  \E p \in DOMAIN procs, custom \in BOOLEAN :
    /\ FreeSlot(p) /\ CanStart
    /\ Goto(p, [ ProcIdle EXCEPT !.origin = "chat", !.custom = custom,
                                 !.entered = "stageAndCommit",
                                 !.modeAtStart = isHumanTyping,
                                 !.previous = Previous ], EntryPoint("chat"))
    /\ started' = started + 1
    /\ UNCHANGED << clock, detVars, lastOp, config, gitIdentity, analysed, extension, dirty,
                   index, commits, nextHash >>

\* cursorGit.commitNow -> gitManager.commitChanges()
CommitNow ==
  \E p \in DOMAIN procs :
    /\ FreeSlot(p) /\ CanStart
    /\ Goto(p, [ ProcIdle EXCEPT !.origin = "commitNow",
                                 !.entered = "commitChanges",
                                 !.modeAtStart = isHumanTyping,
                                 !.previous = Previous ], EntryPoint("commitNow"))
    /\ started' = started + 1
    /\ UNCHANGED << clock, detVars, lastOp, config, gitIdentity, analysed, extension, dirty,
                   index, commits, nextHash >>

(* ---- one action per awaited call ---- *)

\* ChangeDetector.commitChanges: await getModifiedFiles()
StepCdStatus ==
  \E p \in DOMAIN procs, ok \in BOOLEAN :
    /\ procs[p].pc = "cd_status"
    /\ LET files == IF ok THEN StatusChanged ELSE {}
           rec == [ procs[p] EXCEPT !.statusFailed = ~ok ]
       IN IF files = {} THEN Goto(p, rec, "done")
          ELSE Goto(p, [ rec EXCEPT !.entered = "stageAndCommit" ], "sc_status")
    /\ UNCHANGED << clock, detVars, lastOp, config, gitIdentity, analysed, extension, dirty,
                   index, commits, nextHash, started >>

\* stageAndCommit: await getModifiedFiles(), then stageFiles up to git.add
StepScStatus ==
  \E p \in DOMAIN procs, ok \in BOOLEAN :
    /\ procs[p].pc = "sc_status"
    /\ LET files == IF ok THEN StatusChanged ELSE {}
           rec == [ procs[p] EXCEPT !.modifiedFiles = files, !.statusFailed = ~ok ]
           branch == StageAndCommitBranch(files)
       IN IF branch = "noChanges" THEN FinishProc(p, rec, NoChangesResult)
          ELSE IF branch = "add"
               THEN Goto(p, [ rec EXCEPT !.toAdd = StageFilesToAdd(files) ], "sc_add")
          ELSE Goto(p, rec, "cc_status")
    /\ UNCHANGED << clock, detVars, lastOp, config, gitIdentity, analysed, extension, dirty,
                   index, commits, nextHash, started >>

\* stageFiles called from stageAndCommit: await git.add(filteredFiles)
StepScAdd ==
  \E p \in DOMAIN procs, ok \in BOOLEAN :
    /\ procs[p].pc = "sc_add"
    /\ LET rec == [ procs[p] EXCEPT !.addCalled = TRUE,
                                    !.addFailed = @ \/ ~ok,
                                    !.added = IF ok THEN @ \cup NewlyStaged(procs[p].toAdd)
                                              ELSE @ ]
       IN IF ok THEN GitAdd(rec.toAdd) /\ Goto(p, rec, "cc_status")
          ELSE FinishProc(p, rec, StageFailedResult) /\ UNCHANGED << dirty, index >>
    /\ UNCHANGED << clock, detVars, lastOp, config, gitIdentity, analysed, extension,
                   commits, nextHash, started >>

\* commitChanges: await getStatus(), then the message is resolved
StepCcStatus ==
  \E p \in DOMAIN procs, ok \in BOOLEAN, e \in Thrown :
    /\ procs[p].pc = "cc_status"
    /\ LET rec == [ procs[p] EXCEPT !.stagedFiles = IF ok THEN StatusStaged ELSE {},
                                    !.stagedRead = IF ~ok THEN "failed"
                                                   ELSE IF StatusStaged = {} THEN "empty"
                                                   ELSE "some" ]
       IN IF ~ok THEN FinishProc(p, rec, CommitChangesCatch(e))
          ELSE IF CommitChangesBranch(rec.stagedFiles) = "nothingStaged"
               THEN FinishProc(p, rec, NothingStagedResult)
          ELSE IF rec.custom
               THEN Goto(p, ToAuthor(rec, Msg("custom", {})), "cfg_name")
          ELSE IF config.useCursorAI THEN Goto(p, rec, "gen_status")
          ELSE Goto(p, ToAuthor(rec, HeuristicMessage(rec.stagedFiles)), "cfg_name")
    /\ UNCHANGED << clock, detVars, lastOp, config, gitIdentity, analysed, extension, dirty,
                   index, commits, nextHash, started >>

\* generateCursorCommitMessage: await getStatus(); a failure is rethrown to
\* generateCommitMessage
StepGenStatus ==
  \E p \in DOMAIN procs, ok \in BOOLEAN, e \in Thrown :
    /\ procs[p].pc = "gen_status"
    /\ IF ~ok
       THEN LET m == GenerateCommitMessageCatch(e, procs[p].stagedFiles)
            IN IF m.kind = "throw"
               THEN FinishProc(p, procs[p], CommitChangesCatch(m.thrown))
               ELSE Goto(p, ToAuthor(procs[p], m.message), "cfg_name")
       ELSE IF StatusStaged = {} THEN Goto(p, procs[p], "gen_modified")
       ELSE Goto(p, procs[p], "gen_cmd")
    /\ UNCHANGED << clock, detVars, lastOp, config, gitIdentity, analysed, extension, dirty,
                   index, commits, nextHash, started >>

\* generateCursorCommitMessage: await getModifiedFiles(), then stageFiles
StepGenModified ==
  \E p \in DOMAIN procs, ok \in BOOLEAN :
    /\ procs[p].pc = "gen_modified"
    /\ LET toAdd == StageFilesToAdd(IF ok THEN StatusChanged ELSE {})
       IN IF toAdd = {} THEN Goto(p, procs[p], "gen_cmd")
          ELSE Goto(p, [ procs[p] EXCEPT !.toAdd = toAdd ], "gen_add")
    /\ UNCHANGED << clock, detVars, lastOp, config, gitIdentity, analysed, extension, dirty,
                   index, commits, nextHash, started >>

\* stageFiles called from generateCursorCommitMessage: its result is ignored
StepGenAdd ==
  \E p \in DOMAIN procs, ok \in BOOLEAN :
    /\ procs[p].pc = "gen_add"
    /\ LET rec == [ procs[p] EXCEPT !.addCalled = TRUE,
                                    !.addFailed = @ \/ ~ok,
                                    !.added = IF ok THEN @ \cup NewlyStaged(procs[p].toAdd)
                                              ELSE @ ]
       IN /\ Goto(p, rec, "gen_cmd")
          /\ IF ok THEN GitAdd(rec.toAdd) ELSE UNCHANGED << dirty, index >>
    /\ UNCHANGED << clock, detVars, lastOp, config, gitIdentity, analysed, extension,
                   commits, nextHash, started >>

\* generateCursorCommitMessage: await executeCommand(
\* 'cursor.generateGitCommitMessage'), then generateCommitMessage's catch
StepGenCmd ==
  \E p \in DOMAIN procs, result \in CommandResults :
    /\ procs[p].pc = "gen_cmd"
    /\ LET rec == [ procs[p] EXCEPT !.genCalled = TRUE,
                                    !.genFailed = ~IsUsableResult(result) ]
           g == GenerateCursorCommitMessage(result)
           m == IF g.kind = "throw"
                THEN GenerateCommitMessageCatch(g.thrown, rec.stagedFiles) ELSE g
       IN IF m.kind = "throw" THEN FinishProc(p, rec, CommitChangesCatch(m.thrown))
          ELSE Goto(p, ToAuthor(rec, m.message), "cfg_name")
    /\ UNCHANGED << clock, detVars, lastOp, config, gitIdentity, analysed, extension, dirty,
                   index, commits, nextHash, started >>

\* getCurrentAuthor: await git.getConfig('user.name')
StepCfgName ==
  \E p \in DOMAIN procs, ok \in BOOLEAN :
    /\ procs[p].pc = "cfg_name"
    /\ LET rec == [ procs[p] EXCEPT !.reads.name = gitIdentity.name,
                                    !.reads.email = gitIdentity.email,
                                    !.reads.failed = ~ok ]
       IN IF ~ok
          THEN Goto(p, [ rec EXCEPT !.authorName = "Unknown",
                                    !.authorEmail = "unknown@example.com" ], "commit")
          ELSE Goto(p, [ rec EXCEPT !.authorName = GetConfig("user.name") ], "cfg_email")
    /\ UNCHANGED << clock, detVars, lastOp, config, gitIdentity, analysed, extension, dirty,
                   index, commits, nextHash, started >>

\* getCurrentAuthor: await git.getConfig('user.email'), then its return
StepCfgEmail ==
  \E p \in DOMAIN procs, ok \in BOOLEAN :
    /\ procs[p].pc = "cfg_email"
    /\ LET rec == [ procs[p] EXCEPT !.reads.email = gitIdentity.email,
                                    !.reads.failed = ~ok ]
       IN IF ~ok
          THEN Goto(p, [ rec EXCEPT !.authorName = "Unknown",
                                    !.authorEmail = "unknown@example.com" ], "commit")
          ELSE Goto(p, [ rec EXCEPT !.authorName = ValueOr(rec.authorName, "Unknown"),
                                    !.authorEmail = ValueOr(GetConfig("user.email"),
                                                            "unknown@example.com") ],
                    "commit")
    /\ UNCHANGED << clock, detVars, lastOp, config, gitIdentity, analysed, extension, dirty,
                   index, commits, nextHash, started >>

\* commitChanges: await git.commit(message, undefined, {'--author': ...}).
\* With an empty index the backend has nothing to commit: it either throws
\* or reports no commit hash.
StepCommit ==
  \E p \in DOMAIN procs, ok \in BOOLEAN, e \in Thrown :
    /\ procs[p].pc = "commit"
    /\ LET rec == [ procs[p] EXCEPT !.commitCalled = TRUE ]
           hash == nextHash + 1
       IN IF ~ok
          THEN /\ FinishProc(p, rec, CommitChangesCatch(e))
               /\ UNCHANGED << index, commits, nextHash >>
          ELSE IF index = {}
          THEN /\ FinishProc(p, rec, Return(TRUE, rec.message, "", 0))
               /\ UNCHANGED << index, commits, nextHash >>
          ELSE /\ commits' = Append(commits,
                                    [ hash |-> hash, files |-> index,
                                      author |-> AIAuthor(rec.authorName, rec.authorEmail,
                                                          rec.suffix),
                                      reads |-> rec.reads, by |-> rec.entered,
                                      message |-> rec.message,
                                      \* the typing sessions at the trigger
                                      \* and at the commit (not program state)
                                      sessionsAtSave |-> rec.sessionsAtStart,
                                      sessionsAt |-> << currentSession,
                                                        typingSessions >>,
                                      \* the notification shown for it
                                      notice |-> IF rec.origin = "save"
                                                 THEN Len(notifications) + 1
                                                 ELSE 0 ])
               /\ index' = {}
               /\ nextHash' = hash
               /\ FinishProc(p, rec, Return(TRUE, rec.message, "", hash))
    /\ UNCHANGED << clock, detVars, lastOp, config, gitIdentity, analysed, extension, dirty,
                   started >>

\* a file of the working tree is written (an editor save or any other tool)
WorkTreeChange ==
  \E path \in Paths :
    /\ path \notin dirty
    /\ dirty' = dirty \cup { path }
    /\ UNCHANGED << clock, detVars, lastOp, lastCommitHash, notifications,
                   config, gitIdentity, analysed, extension, index, commits,
                   nextHash, started, procs >>

\* the index is shared with other tools: staged paths are unstaged outside
\* the extension (git reset)
ExternalReset ==
  /\ index # {}
  /\ dirty' = dirty \cup index
  /\ index' = {}
  /\ UNCHANGED << clock, detVars, lastOp, lastCommitHash, notifications,
                   config, gitIdentity, analysed, extension, commits, nextHash,
                   started, procs >>

(* ------------------------------- Init ---------------------------------- *)

\* activate() registering every command but showStatus
RegisteredCommands_WithoutShowStatus ==
  { "cursorGit.enable", "cursorGit.disable", "cursorGit.commitNow",
    "cursorGit.testCursorAI", "cursorGit.testAISample", "cursorGit.checkCursorAI" }

\* the commands activate() registers and pushes to context.subscriptions
RegisteredCommands ==
  { "cursorGit.enable", "cursorGit.disable", "cursorGit.commitNow",
    "cursorGit.showStatus", "cursorGit.testCursorAI", "cursorGit.testAISample",
    "cursorGit.checkCursorAI" }

\* the extension once activate() has returned
Activated == [ phase |-> "active", commands |-> RegisteredCommands ]

\* no call of analyzeChanges yet
NoAnalysis ==
  [ called |-> FALSE, files |-> <<>>, template |-> <<>>, type |-> "",
    description |-> <<>>, message |-> <<>> ]

InitBase ==
  /\ clock = 0
  /\ isEnabled = TRUE
  /\ subscribed = TRUE
  /\ isHumanTyping = TRUE
  /\ currentSession = <<>>
  /\ typingSessions = <<>>
  /\ lastUserAction = 0
  /\ lastWPM = <<>>
  /\ lastTypingMode = <<>>
  /\ lastOp = Observed("init", <<>>, NoChange)
  /\ lastCommitHash = 0
  /\ notifications = <<>>
  /\ dirty = {}
  /\ index = {}
  /\ commits = <<>>
  /\ nextHash = 0
  /\ started = 0
  /\ gitIdentity = [ name |-> UserName, email |-> UserEmail ]
  /\ analysed = NoAnalysis
  /\ extension = Activated

DefaultConfig ==
  [ enabled |-> TRUE, commitFrequency |-> "onSave", autoStage |-> TRUE,
    useCursorAI |-> TRUE, aiAuthorSuffix |-> aiAuthorSuffix ]

Configs ==
  [ enabled : { TRUE }, commitFrequency : { "immediate", "onSave", "manual" },
    autoStage : BOOLEAN, useCursorAI : BOOLEAN, aiAuthorSuffix : { aiAuthorSuffix } ]

InitDetector ==
  /\ InitBase
  /\ config = DefaultConfig
  /\ procs = [ p \in 1..1 |-> ProcIdle ]

Init ==
  /\ InitBase
  /\ config \in Configs
  /\ procs = [ p \in 1..MaxProcs |-> ProcIdle ]

(* ------------------------------ actions -------------------------------- *)

Advance ==
  \E dt \in TimeSteps :
    /\ clock + dt <= MaxTime
    /\ clock' = clock + dt
    /\ UNCHANGED << detVars, lastOp, gitVars >>

\* a textChangeListener that takes every event for a human action once an
\* orchestration has returned a failure
TextDocumentChanged_HumanAfterFailure(event) ==
    /\ subscribed
    /\ isEnabled
    /\ LET failed == \E p \in DOMAIN procs :
                       procs[p].pc = "done" /\ procs[p].result.kind = "return"
                                            /\ ~procs[p].result.success
           d == IF failed THEN FlagHumanAction(DetState, clock)
                ELSE AnalyzeTypingSpeed(DetState, event, clock)
       IN /\ SessionChars(d) <= MaxChars
          /\ SetDet(d)
          /\ lastOp' = IF event.kind = "undo" THEN Observed("undoEvent", <<>>, NoChange)
                        ELSE Observed("textChange",
                                      ChangeBranches(DetState, event.contentChanges, clock),
                                      IF event.contentChanges = <<>> THEN NoChange
                                      ELSE event.contentChanges[Len(event.contentChanges)])
    /\ UNCHANGED << clock, isEnabled, subscribed, gitVars >>

\* a textChangeListener without the isEnabled test
TextDocumentChanged_Ungated(event) ==
    /\ subscribed
    /\ LET d == AnalyzeTypingSpeed(DetState, event, clock)
       IN /\ SessionChars(d) <= MaxChars
          /\ SetDet(d)
          /\ lastOp' = IF event.kind = "undo" THEN Observed("undoEvent", <<>>, NoChange)
                        ELSE Observed("textChange",
                                      ChangeBranches(DetState, event.contentChanges, clock),
                                      IF event.contentChanges = <<>> THEN NoChange
                                      ELSE event.contentChanges[Len(event.contentChanges)])
    /\ UNCHANGED << clock, isEnabled, subscribed, gitVars >>

\* textChangeListener, given an event
TextDocumentChanged(event) ==
    /\ subscribed
    /\ isEnabled
    /\ LET d == AnalyzeTypingSpeed(DetState, event, clock)
       IN /\ SessionChars(d) <= MaxChars
          /\ SetDet(d)
          /\ lastOp' = IF event.kind = "undo" THEN Observed("undoEvent", <<>>, NoChange)
                        ELSE Observed("textChange",
                                      ChangeBranches(DetState, event.contentChanges, clock),
                                      IF event.contentChanges = <<>> THEN NoChange
                                      ELSE event.contentChanges[Len(event.contentChanges)])
    /\ UNCHANGED << clock, isEnabled, subscribed, gitVars >>

\* textChangeListener: onDidChangeTextDocument
DidChangeTextDocument == \E event \in Events : TextDocumentChanged(event)

\* undoListener / redoListener: the 'undo' and 'redo' commands
UndoRedoCommand ==
  /\ subscribed
  /\ SetDet(FlagHumanAction(DetState, clock))
  /\ lastOp' = Observed("undoRedoCommand", <<>>, NoChange)
  /\ UNCHANGED << clock, isEnabled, subscribed, gitVars >>

\* dispose(): the listeners are disposed and the running session is
\* finalized
Dispose ==
  /\ subscribed
  /\ subscribed' = FALSE
  /\ SetDet(FinalizeCurrentSession(DetState, clock))
  /\ lastOp' = Observed("dispose", <<>>, NoChange)
  /\ UNCHANGED << clock, isEnabled, gitVars >>

SetAIFlag ==
  \E isAI \in BOOLEAN :
    /\ isHumanTyping' = ~isAI
    /\ lastOp' = Observed("setAIFlag", <<>>, NoChange)
    /\ UNCHANGED << clock, isEnabled, subscribed, currentSession, typingSessions,
                    lastUserAction, lastWPM, lastTypingMode, gitVars >>

NextDetector ==
  \/ Advance
  \/ DidChangeTextDocument
  \/ UndoRedoCommand
  \/ SetAIFlag

SpecDetector == InitDetector /\ [][NextDetector]_vars

(* ---- one session typed at a fine time grain ---- *)

\* 80 ms pass
Elapse ==
  /\ clock + 80 <= MaxElapsed
  /\ clock' = clock + 80
  /\ UNCHANGED << detVars, lastOp, gitVars >>

\* insertions of four, six and seven characters
Insertions ==
  { [ kind |-> "none", contentChanges |-> << [ text |-> n, rangeLength |-> 0 ] >> ] :
      n \in { 4, 6, 7 } }

DidInsert == \E event \in Insertions : TextDocumentChanged(event)

NextWpm ==
  \/ Elapse
  \/ DidInsert

SpecWpm == InitDetector /\ [][NextWpm]_vars

(* ---- staging a working tree of variously named files ---- *)

PathBlog == << "b", "l", "o", "g" >>
PathLogs == << "a", ".", "l", "o", "g", "s" >>

\* the files found modified: a.ts, b.log, blog, a.logs
ModifiedPaths == { PathTs, PathLog, PathBlog, PathLogs }

InitStaging ==
  /\ clock = 0
  /\ isEnabled = TRUE
  /\ subscribed = TRUE
  /\ isHumanTyping = FALSE
  /\ currentSession = <<>>
  /\ typingSessions = <<>>
  /\ lastUserAction = 0
  /\ lastWPM = <<>>
  /\ lastTypingMode = <<>>
  /\ lastOp = Observed("init", <<>>, NoChange)
  /\ lastCommitHash = 0
  /\ notifications = <<>>
  /\ dirty \in SUBSET ModifiedPaths
  /\ index = {}
  /\ commits = <<>>
  /\ nextHash = 0
  /\ started = 0
  /\ gitIdentity = [ name |-> UserName, email |-> UserEmail ]
  /\ analysed = NoAnalysis
  /\ extension = Activated
  /\ config \in { c \in Configs : c.commitFrequency = "onSave" /\ ~c.useCursorAI }
  /\ procs = [ p \in 1..MaxProcs |-> ProcIdle ]

NextStaging ==
  \/ DidSaveTextDocument
  \/ ChatCommit
  \/ StepCdStatus
  \/ StepScStatus
  \/ StepScAdd
  \/ StepCcStatus
  \/ StepCfgName
  \/ StepCfgEmail
  \/ StepCommit

SpecStaging == InitStaging /\ [][NextStaging]_vars

(* ---- the detector that defers its trigger (src/changeDetector.ts) ---- *)

\* the setTimeout delay
TriggerDelay == 1000

RECURSIVE TotalChanges(_)
TotalChanges(changes) ==
  IF changes = <<>> THEN 0 ELSE Head(changes).text + TotalChanges(Tail(changes))

\* isAIGeneratedChange: more than 10 characters of text in the event
IsAIGeneratedChange(event) ==
  event.contentChanges # <<>> /\ TotalChanges(event.contentChanges) > 10

\* a listener that keeps one pending timer: scheduling clears the others
ScheduleAttempt_Debounced(ps, p, now) ==
  [ q \in DOMAIN ps |->
      IF q = p THEN [ ProcIdle EXCEPT !.pc = "timer", !.origin = "deferred",
                                      !.due = now + TriggerDelay ]
      ELSE IF ps[q].pc = "timer" THEN ProcIdle
      ELSE ps[q] ]

\* setTimeout(() => handleAIGeneratedChange(event), 1000): one more pending
\* timer; no handle is kept and no timer is cleared
ScheduleAttempt(ps, p, now) ==
  [ ps EXCEPT ![p] = [ ProcIdle EXCEPT !.pc = "timer", !.origin = "deferred",
                                       !.due = now + TriggerDelay ] ]

\* aiCompletionListener (and cursorChangeListener), given an event
DeferredChange(event) ==
  /\ subscribed
  /\ IF isEnabled /\ IsAIGeneratedChange(event) /\ ShouldAutoCommit
     THEN \E p \in DOMAIN procs :
            /\ FreeSlot(p) /\ CanStart
            /\ procs' = ScheduleAttempt(procs, p, clock)
            /\ started' = started + 1
     ELSE UNCHANGED << procs, started >>
  /\ lastOp' = Observed("deferredChange",
                        << IF IsAIGeneratedChange(event) THEN "ai" ELSE "ignored" >>,
                        NoChange)
  /\ UNCHANGED << clock, detVars, lastCommitHash, notifications, config,
                  gitIdentity, analysed, extension, dirty, index, commits, nextHash >>

\* a completion of 51 characters, one of 10 and 4 characters in two changes,
\* a keystroke sequence of 4 characters, and a selection change (which has
\* no contentChanges)
DeferredEvents ==
  { [ kind |-> "none", contentChanges |-> << [ text |-> 51, rangeLength |-> 0 ] >> ],
    [ kind |-> "none", contentChanges |-> << [ text |-> 10, rangeLength |-> 0 ],
                                             [ text |-> 4, rangeLength |-> 0 ] >> ],
    [ kind |-> "none", contentChanges |-> << [ text |-> 4, rangeLength |-> 0 ] >> ],
    [ kind |-> "none", contentChanges |-> << >> ] }

DidChangeDeferred == \E event \in DeferredEvents : DeferredChange(event)

\* a timer expires: its callback calls handleAIGeneratedChange, which first
\* awaits getModifiedFiles()
TimerFires ==
  \E p \in DOMAIN procs :
    /\ procs[p].pc = "timer"
    /\ clock >= procs[p].due
    /\ Goto(p, procs[p], "cd_status")
    /\ UNCHANGED << clock, detVars, lastOp, config, gitIdentity, analysed, extension, dirty,
                   index, commits, nextHash, started >>

\* time passes, but not beyond the expiry of a pending timer
AdvanceToTimer ==
  \E dt \in { 500 } :
    /\ clock + dt <= MaxTime
    /\ \A p \in DOMAIN procs : procs[p].pc = "timer" => clock + dt <= procs[p].due
    /\ clock' = clock + dt
    /\ UNCHANGED << detVars, lastOp, gitVars >>

InitDeferred ==
  /\ InitBase
  /\ config \in { c \in Configs : ~c.useCursorAI /\ c.autoStage }
  /\ procs = [ p \in 1..MaxAttempts |-> ProcIdle ]

NextDeferred ==
  \/ AdvanceToTimer
  \/ DidChangeDeferred
  \/ TimerFires
  \/ WorkTreeChange
  \/ StepCdStatus
  \/ StepScStatus
  \/ StepScAdd
  \/ StepCcStatus
  \/ StepCfgName
  \/ StepCfgEmail
  \/ StepCommit

SpecDeferred == InitDeferred /\ [][NextDeferred]_vars

(* ---- saves whose awaited calls return ---- *)

NextLive ==
  \/ SetAIFlag
  \/ WorkTreeChange
  \/ DidSaveTextDocument
  \/ StepCdStatus
  \/ StepScStatus
  \/ StepScAdd
  \/ StepCcStatus
  \/ StepGenStatus
  \/ StepGenCmd
  \/ StepCfgName
  \/ StepCfgEmail
  \/ StepCommit

\* every awaited call settles: a handler that waits for one goes on
AwaitedCallsReturn ==
  /\ WF_vars(StepCdStatus)
  /\ WF_vars(StepScStatus)
  /\ WF_vars(StepScAdd)
  /\ WF_vars(StepCcStatus)
  /\ WF_vars(StepGenStatus)
  /\ WF_vars(StepGenCmd)
  /\ WF_vars(StepCfgName)
  /\ WF_vars(StepCfgEmail)
  /\ WF_vars(StepCommit)

SpecLive == Init /\ [][NextLive]_vars /\ AwaitedCallsReturn

(* ---- sessions over many idle periods ---- *)

MaxIdlePeriods == 11

\* the idle timeout passes
IdlePeriod ==
  /\ clock + sessionTimeout + 1 <= MaxIdlePeriods * (sessionTimeout + 1)
  /\ clock' = clock + sessionTimeout + 1
  /\ UNCHANGED << detVars, lastOp, gitVars >>

\* a change of four characters that arrives when no session is running or
\* the running one has timed out
DidChangeAfterIdle ==
  /\ IF currentSession = <<>> THEN TRUE
     ELSE clock - currentSession[1].startTime > sessionTimeout
  /\ TextDocumentChanged([ kind |-> "none",
                           contentChanges |-> << [ text |-> 4, rangeLength |-> 0 ] >> ])

NextSessions ==
  \/ IdlePeriod
  \/ DidChangeAfterIdle
  \/ Dispose

SpecSessions == InitDetector /\ [][NextSessions]_vars

NextGit ==
  \/ SetAIFlag
  \/ WorkTreeChange
  \/ ExternalReset
  \/ DidSaveTextDocument
  \/ ChatCommit
  \/ CommitNow
  \/ StepCdStatus
  \/ StepScStatus
  \/ StepScAdd
  \/ StepCcStatus
  \/ StepGenStatus
  \/ StepGenModified
  \/ StepGenAdd
  \/ StepGenCmd
  \/ StepCfgName
  \/ StepCfgEmail
  \/ StepCommit

Spec == Init /\ [][NextGit]_vars

(* ------------------------- message synthesizer ------------------------ *)

\* str.includes(part)
Includes(str, part) ==
  \E i \in 1..(Len(str) - Len(part) + 1) : SubSeq(str, i, i + Len(part) - 1) = part

\* str.endsWith(part)
EndsWith(str, part) ==
  /\ Len(str) >= Len(part)
  /\ SubSeq(str, Len(str) - Len(part) + 1, Len(str)) = part

\* path.extname(file): from the last '.' of the base name to the end, '' when
\* the base name has no '.' or only a leading one
ExtName(file) ==
  LET slashes == { i \in 1..Len(file) : file[i] = "/" }
      base == IF slashes = {} THEN 1
              ELSE 1 + CHOOSE i \in slashes : \A j \in slashes : j <= i
      dots == { i \in base..Len(file) : file[i] = "." }
      last == CHOOSE i \in dots : \A j \in dots : j <= i
  IN IF dots = {} \/ last = base THEN <<>> ELSE SubSeq(file, last, Len(file))

\* [...new Set(files.map(f => path.extname(f)).filter(ext => ext))], in
\* order of first occurrence
RECURSIVE UniqueExtensions(_)
UniqueExtensions(files) ==
  IF files = <<>> THEN <<>>
  ELSE LET before == UniqueExtensions(SubSeq(files, 1, Len(files) - 1))
           ext == ExtName(files[Len(files)])
       IN IF ext = <<>> \/ \E i \in 1..Len(before) : before[i] = ext
          THEN before ELSE Append(before, ext)

HasNewFiles(files) ==
  \E i \in 1..Len(files) :
    Includes(files[i], << "(", "n", "e", "w", " ", "f", "i", "l", "e", ")" >>)

HasDeletedFiles(files) ==
  \E i \in 1..Len(files) :
    Includes(files[i], << "(", "d", "e", "l", "e", "t", "e", "d", ")" >>)

HasTestFiles(files) ==
  \E i \in 1..Len(files) :
    \/ Includes(files[i], << "t", "e", "s", "t" >>)
    \/ Includes(files[i], << "s", "p", "e", "c" >>)
    \/ EndsWith(files[i], << ".", "t", "e", "s", "t", "." >>)
    \/ EndsWith(files[i], << ".", "s", "p", "e", "c", "." >>)

HasDocFiles(files) ==
  \E i \in 1..Len(files) :
    \/ EndsWith(files[i], << ".", "m", "d" >>)
    \/ EndsWith(files[i], << ".", "t", "x", "t" >>)
    \/ Includes(files[i], << "d", "o", "c" >>)

HasConfigFiles(files) ==
  \E i \in 1..Len(files) :
    \/ Includes(files[i], << "c", "o", "n", "f", "i", "g" >>)
    \/ EndsWith(files[i], << ".", "j", "s", "o", "n" >>)
    \/ EndsWith(files[i], << ".", "y", "m", "l" >>)
    \/ EndsWith(files[i], << ".", "y", "a", "m", "l" >>)

HasStyleFiles(files) ==
  \E i \in 1..Len(files) :
    \/ EndsWith(files[i], << ".", "c", "s", "s" >>)
    \/ EndsWith(files[i], << ".", "s", "c", "s", "s" >>)
    \/ EndsWith(files[i], << ".", "s", "a", "s", "s" >>)
    \/ EndsWith(files[i], << ".", "l", "e", "s", "s" >>)

HasBuildFiles(files) ==
  \E i \in 1..Len(files) :
    \/ Includes(files[i], << "b", "u", "i", "l", "d" >>)
    \/ Includes(files[i], << "w", "e", "b", "p", "a", "c", "k" >>)
    \/ Includes(files[i], << "r", "o", "l", "l", "u", "p" >>)
    \/ EndsWith(files[i], << ".", "l", "o", "c", "k" >>)

HasFixFiles(files) ==
  \E i \in 1..Len(files) :
    Includes(files[i], << "f", "i", "x" >>) \/ Includes(files[i], << "b", "u", "g" >>)

\* analyzeChanges: the commit type, first match wins
CommitType(files) ==
  IF HasTestFiles(files) /\ ~HasNewFiles(files) THEN "test"
  ELSE IF HasDocFiles(files) THEN "docs"
  ELSE IF HasStyleFiles(files) THEN "style"
  ELSE IF HasConfigFiles(files) \/ HasBuildFiles(files) THEN "chore"
  ELSE IF HasDeletedFiles(files) /\ ~HasNewFiles(files) THEN "refactor"
  ELSE IF HasFixFiles(files) THEN "fix"
  ELSE "feat"

\* the characters of the string literals of analyzeChanges
TextAddAndRemove == << "a", "d", "d", " ", "a", "n", "d", " ", "r", "e", "m", "o", "v", "e", " ", "f", "i", "l", "e", "s" >>
TextAddNew == << "a", "d", "d", " ", "n", "e", "w", " ", "f", "i", "l", "e", "s" >>
TextRemove == << "r", "e", "m", "o", "v", "e", " ", "f", "i", "l", "e", "s" >>
TextUpdate == << "u", "p", "d", "a", "t", "e" >>
TextFiles == << " ", "f", "i", "l", "e", "s" >>
TextMultipleTypes == << " ", "m", "u", "l", "t", "i", "p", "l", "e", " ", "f", "i", "l", "e", " ", "t", "y", "p", "e", "s" >>
TextFilesClose == << " ", "f", "i", "l", "e", "s", ")" >>

\* `${n}` of a template literal: the decimal digits of a natural number
RECURSIVE NumberText(_)
NumberText(n) ==
  LET digit == << "0", "1", "2", "3", "4", "5", "6", "7", "8", "9" >>[(n % 10) + 1]
  IN IF n < 10 THEN << digit >> ELSE Append(NumberText(n \div 10), digit)

\* a description that names the extension of the first file whenever some
\* file has an extension
Description_FirstExtension(files) ==
  LET exts == UniqueExtensions(files)
      text == IF HasNewFiles(files) /\ HasDeletedFiles(files) THEN TextAddAndRemove
              ELSE IF HasNewFiles(files) THEN TextAddNew
              ELSE IF HasDeletedFiles(files) THEN TextRemove
              ELSE IF Len(exts) >= 1 THEN TextUpdate \o << " " >> \o exts[1] \o TextFiles
              ELSE TextUpdate \o TextFiles
  IN IF Len(files) > 1
     THEN text \o << " ", "(" >> \o NumberText(Len(files)) \o TextFilesClose
     ELSE text

\* analyzeChanges: the description; the file count follows when more than
\* one file is given
Description(files) ==
  LET exts == UniqueExtensions(files)
      text == IF HasNewFiles(files) /\ HasDeletedFiles(files) THEN TextAddAndRemove
              ELSE IF HasNewFiles(files) THEN TextAddNew
              ELSE IF HasDeletedFiles(files) THEN TextRemove
              ELSE IF Len(exts) = 1 THEN TextUpdate \o << " " >> \o exts[1] \o TextFiles
              ELSE IF Len(exts) > 1 THEN TextUpdate \o TextMultipleTypes
              ELSE TextUpdate \o TextFiles
  IN IF Len(files) > 1
     THEN text \o << " ", "(" >> \o NumberText(Len(files)) \o TextFilesClose
     ELSE text

\* analyzeChanges(files); its catch block is not reached for an array of
\* strings
AnalyzeChanges(files) ==
  [ type |-> CommitType(files), description |-> Description(files) ]

\* entries of status.staged: the path analyzeChanges is given, and what
\* happened to the file (which the path does not tell)
PathTest == << "a", ".", "t", "e", "s", "t", ".", "t", "s" >>
PathReadme == << "R", "E", "A", "D", "M", "E", ".", "m", "d" >>
PathCss == << "a", ".", "c", "s", "s" >>
PathJson == << "x", ".", "j", "s", "o", "n" >>
PathFix == << "f", "i", "x", ".", "t", "s" >>
PathNewMarker == << "n", "(", "n", "e", "w", " ", "f", "i", "l", "e", ")" >>
PathDeletedMarker == << "o", "(", "d", "e", "l", "e", "t", "e", "d", ")" >>
PathX == << "x", ".", "t", "s" >>
PathY == << "y", ".", "t", "s" >>

StagedEntries ==
  { [ path |-> PathTest, status |-> "modified" ],
    [ path |-> PathTest, status |-> "created" ],
    [ path |-> PathReadme, status |-> "modified" ],
    [ path |-> PathCss, status |-> "modified" ],
    [ path |-> PathJson, status |-> "modified" ],
    [ path |-> PathFix, status |-> "modified" ],
    [ path |-> PathTs, status |-> "modified" ],
    [ path |-> PathTs, status |-> "created" ],
    [ path |-> PathTs, status |-> "deleted" ],
    [ path |-> PathX, status |-> "created" ],
    [ path |-> PathY, status |-> "created" ],
    [ path |-> PathNewMarker, status |-> "modified" ],
    [ path |-> PathDeletedMarker, status |-> "modified" ] }

\* non-empty staged lists without a repeated path
StagedLists ==
  { list \in SeqsUpTo(StagedEntries, MaxFiles) :
      /\ list # <<>>
      /\ \A i, j \in 1..Len(list) : i # j => list[i].path # list[j].path }

PathsOf(list) == [ i \in 1..Len(list) |-> list[i].path ]

\* str.startsWith(part)
StartsWith(str, part) ==
  /\ Len(str) >= Len(part)
  /\ SubSeq(str, 1, Len(part)) = part

\* str.replace(pattern, by) with a string pattern: only the first occurrence
\* is replaced
ReplaceFirst(str, pattern, by) ==
  LET at == { i \in 1..(Len(str) - Len(pattern) + 1) :
                SubSeq(str, i, i + Len(pattern) - 1) = pattern }
      first == CHOOSE i \in at : \A j \in at : i <= j
  IN IF at = {} THEN str
     ELSE SubSeq(str, 1, first - 1) \o by \o SubSeq(str, first + Len(pattern), Len(str))

DescriptionPlaceholder == << "{", "d", "e", "s", "c", "r", "i", "p", "t", "i", "o", "n", "}" >>
TypePlaceholder == << "{", "t", "y", "p", "e", "}" >>

\* `${analysis.type}`: the characters of the type
TypeText(type) ==
  CASE type = "feat" -> << "f", "e", "a", "t" >>
    [] type = "fix" -> << "f", "i", "x" >>
    [] type = "docs" -> << "d", "o", "c", "s" >>
    [] type = "style" -> << "s", "t", "y", "l", "e" >>
    [] type = "refactor" -> << "r", "e", "f", "a", "c", "t", "o", "r" >>
    [] type = "test" -> << "t", "e", "s", "t" >>
    [] type = "chore" -> << "c", "h", "o", "r", "e" >>

\* template.match(/^(feat|fix|docs|style|refactor|test|chore|build|ci|perf|revert):/)
MatchesTypePrefix(template) ==
  \E prefix \in { << "f", "e", "a", "t", ":" >>,
                   << "f", "i", "x", ":" >>,
                   << "d", "o", "c", "s", ":" >>,
                   << "s", "t", "y", "l", "e", ":" >>,
                   << "r", "e", "f", "a", "c", "t", "o", "r", ":" >>,
                   << "t", "e", "s", "t", ":" >>,
                   << "c", "h", "o", "r", "e", ":" >>,
                   << "b", "u", "i", "l", "d", ":" >>,
                   << "c", "i", ":" >>,
                   << "p", "e", "r", "f", ":" >>,
                   << "r", "e", "v", "e", "r", "t", ":" >> } :
    StartsWith(template, prefix)

\* generateHeuristicCommitMessage, after the template was read and the files
\* were analysed
HeuristicCommitMessage(template, analysis) ==
  IF ~Includes(template, TypePlaceholder) /\ ~MatchesTypePrefix(template)
  THEN TypeText(analysis.type) \o << ":", " " >> \o analysis.description
  ELSE ReplaceFirst(ReplaceFirst(template, DescriptionPlaceholder, analysis.description),
                    TypePlaceholder, TypeText(analysis.type))

\* values of commitMessageTemplate: the default, the two examples of the
\* configuration reference, a fixed conventional type, and one that names
\* the description twice
TemplateDefault == << "f", "e", "a", "t", ":", " ", "{", "d", "e", "s", "c", "r", "i", "p", "t", "i", "o", "n", "}" >>
TemplateAIPrefix == << "A", "I", ":", " ", "{", "d", "e", "s", "c", "r", "i", "p", "t", "i", "o", "n", "}" >>
TemplateTypeAndMarker == << "{", "t", "y", "p", "e", "}", ":", " ", "{", "d", "e", "s", "c", "r", "i", "p", "t", "i", "o", "n", "}", " ", "(", "A", "I", "-", "g", "e", "n", "e", "r", "a", "t", "e", "d", ")" >>
TemplateFix == << "f", "i", "x", ":", " ", "{", "d", "e", "s", "c", "r", "i", "p", "t", "i", "o", "n", "}" >>
TemplateTwice == << "{", "t", "y", "p", "e", "}", ":", " ", "{", "d", "e", "s", "c", "r", "i", "p", "t", "i", "o", "n", "}", ";", " ", "{", "d", "e", "s", "c", "r", "i", "p", "t", "i", "o", "n", "}" >>
Templates ==
  { TemplateDefault, TemplateAIPrefix, TemplateTypeAndMarker, TemplateFix, TemplateTwice }

\* generateHeuristicCommitMessage(files), files being the staged paths
\* commitChanges read: reads the template, calls analyzeChanges(files) and
\* builds the message. The calls do not depend on one another, and one call
\* is observed in a behaviour.
AnalyzeStaged ==
  \E list \in StagedLists, template \in Templates :
    LET analysis == AnalyzeChanges(PathsOf(list))
    IN /\ ~analysed.called
       /\ analysed' = [ called |-> TRUE, files |-> list, template |-> template,
                        type |-> analysis.type,
                        description |-> analysis.description,
                        message |-> HeuristicCommitMessage(template, analysis) ]
       /\ UNCHANGED << clock, detVars, lastOp, lastCommitHash, notifications, config,
                       gitIdentity, extension, dirty, index, commits, nextHash,
                       started, procs >>

NextSynthesizer == AnalyzeStaged

SpecSynthesizer == InitDetector /\ [][NextSynthesizer]_vars

(* ---- revert, identity and configuration changes ---- *)

\* a reset that resolves without moving HEAD
GitResetSoft_KeepsHead(branch) == branch

\* git reset --soft HEAD~1: the branch without its last commit
GitResetSoft(branch) == SubSeq(branch, 1, Len(branch) - 1)

\* the 'Revert' button of a commit notification -> revertLastCommit
RevertSelected ==
  \E p \in DOMAIN procs, n \in 1..Len(notifications) :
    /\ FreeSlot(p) /\ CanStart
    /\ Goto(p, [ ProcIdle EXCEPT !.origin = "revert", !.entered = "revertLastCommit",
                                 !.notice = n ],
            "rv_confirm")
    /\ started' = started + 1
    /\ UNCHANGED << clock, detVars, lastOp, config, gitIdentity, analysed, extension, dirty,
                   index, commits, nextHash >>

\* ChangeDetector.revertLastCommit: await showWarningMessage(..., 'Yes', 'No')
StepRvConfirm ==
  \E p \in DOMAIN procs, answer \in { "Yes", "No", "dismissed" } :
    /\ procs[p].pc = "rv_confirm"
    /\ IF answer = "Yes" THEN Goto(p, procs[p], "rv_reset")
       ELSE Goto(p, Done(procs[p], NoResult), "done")
    /\ UNCHANGED << clock, detVars, lastOp, config, gitIdentity, analysed, extension, dirty,
                   index, commits, nextHash, started >>

\* GitManager.revertLastCommit: await git.reset(['--soft', 'HEAD~1']).  The
\* branch modelled starts at its root commit, where HEAD~1 does not exist
\* and the backend rejects the reset; the index keeps the reverted changes.
StepRvReset ==
  \E p \in DOMAIN procs, ok \in BOOLEAN :
    /\ procs[p].pc = "rv_reset"
    /\ IF ok /\ commits # <<>>
       THEN /\ commits' = GitResetSoft(commits)
            /\ index' = index \cup commits[Len(commits)].files
            /\ Goto(p, Done(procs[p], Return(TRUE, NoMsg, "", 0)), "done")
       ELSE /\ Goto(p, Done(procs[p], Return(FALSE, NoMsg, "", 0)), "done")
            /\ UNCHANGED << index, commits >>
    /\ UNCHANGED << clock, detVars, lastOp, config, gitIdentity, analysed, extension, dirty,
                   nextHash, started >>

\* git config user.name / user.email is changed outside the extension
SetGitIdentity ==
  \E id \in Identities :
    /\ id # gitIdentity
    /\ gitIdentity' = id
    /\ UNCHANGED << clock, detVars, lastOp, lastCommitHash, notifications, config,
                    analysed, extension, dirty, index, commits, nextHash, started, procs >>

\* the setting cursorGit.aiAuthorSuffix is changed
SetAIAuthorSuffix ==
  \E suffix \in Suffixes :
    /\ suffix # config.aiAuthorSuffix
    /\ config' = [ config EXCEPT !.aiAuthorSuffix = suffix ]
    /\ UNCHANGED << clock, detVars, lastOp, lastCommitHash, notifications,
                    gitIdentity, analysed, extension, dirty, index, commits, nextHash, started,
                    procs >>

(* The history of the branch: commits triggered by saves of agent edits,  *)
(* reverted from their notification, while the git identity and the       *)
(* author suffix are being changed.                                        *)
InitHistory ==
  /\ clock = 0
  /\ isEnabled = TRUE
  /\ subscribed = TRUE
  /\ isHumanTyping = FALSE
  /\ currentSession = <<>>
  /\ typingSessions = <<>>
  /\ lastUserAction = 0
  /\ lastWPM = <<>>
  /\ lastTypingMode = <<>>
  /\ lastOp = Observed("init", <<>>, NoChange)
  /\ lastCommitHash = 0
  /\ notifications = <<>>
  /\ dirty = {}
  /\ index = {}
  /\ commits = <<>>
  /\ nextHash = 0
  /\ started = 0
  /\ gitIdentity \in Identities
  /\ analysed = NoAnalysis
  /\ extension = Activated
  /\ config = [ DefaultConfig EXCEPT !.useCursorAI = FALSE ]
  /\ procs = [ p \in 1..MaxProcs |-> ProcIdle ]

NextHistory ==
  \/ WorkTreeChange
  \/ SetGitIdentity
  \/ SetAIAuthorSuffix
  \/ DidSaveTextDocument
  \/ StepCdStatus
  \/ StepScStatus
  \/ StepScAdd
  \/ StepCcStatus
  \/ StepCfgName
  \/ StepCfgEmail
  \/ StepCommit
  \/ RevertSelected
  \/ StepRvConfirm
  \/ StepRvReset

SpecHistory == InitHistory /\ [][NextHistory]_vars

(* ---- edits, saves and the enabled setting together ---- *)

\* cursorGit.enable / cursorGit.disable: the setting is written
SetEnabled ==
  \E value \in BOOLEAN :
    /\ value # config.enabled
    /\ config' = [ config EXCEPT !.enabled = value ]
    /\ UNCHANGED << clock, detVars, lastOp, lastCommitHash, notifications,
                    gitIdentity, analysed, extension, dirty, index, commits, nextHash, started,
                    procs >>

\* configChangeListener -> updateEnabledState, for a change of
\* cursorGit.enabled that has not reached the detector yet
ConfigurationChanged ==
  /\ subscribed
  /\ isEnabled # config.enabled
  /\ isEnabled' = config.enabled
  /\ lastOp' = Observed(IF config.enabled THEN "enabled" ELSE "disabled", <<>>, NoChange)
  /\ UNCHANGED << clock, subscribed, isHumanTyping, currentSession, typingSessions,
                  lastUserAction, lastWPM, lastTypingMode, gitVars >>

\* the events of an editing session: an insertion of ten characters and the
\* deletion of one
EditorEvents ==
  { [ kind |-> "none", contentChanges |-> << [ text |-> 10, rangeLength |-> 0 ] >> ],
    [ kind |-> "none", contentChanges |-> << [ text |-> 0, rangeLength |-> 1 ] >> ] }

DidChangeInEditor == \E event \in EditorEvents : TextDocumentChanged(event)

\* half a second passes after the first events
HalfSecond ==
  /\ clock = 0
  /\ clock' = 500
  /\ UNCHANGED << detVars, lastOp, gitVars >>

InitEditor ==
  /\ InitBase
  /\ config \in { [ DefaultConfig EXCEPT !.useCursorAI = FALSE, !.commitFrequency = f ] :
                    f \in { "immediate", "onSave", "manual" } }
  /\ procs = [ p \in 1..MaxProcs |-> ProcIdle ]

NextEditor ==
  \/ HalfSecond
  \/ DidChangeInEditor
  \/ UndoRedoCommand
  \/ SetEnabled
  \/ ConfigurationChanged
  \/ WorkTreeChange
  \/ DidSaveTextDocument
  \/ StepCdStatus
  \/ StepScStatus
  \/ StepScAdd
  \/ StepCcStatus
  \/ StepCfgName
  \/ StepCfgEmail
  \/ StepCommit
  \/ RevertSelected
  \/ StepRvConfirm
  \/ StepRvReset

SpecEditor == InitEditor /\ [][NextEditor]_vars

(* ---- the extension's life cycle (extension.ts) ---- *)

\* the extension host has loaded the extension and not called activate()
NotActivated == [ phase |-> "inactive", commands |-> {} ]

\* activate(): the components are built, the commands registered and pushed
\* to context.subscriptions, and changeDetector.initialize() registers the
\* listeners and reads cursorGit.enabled
Activate ==
  /\ extension.phase = "inactive"
  /\ extension' = [ phase |-> "active", commands |-> RegisteredCommands ]
  /\ subscribed' = TRUE
  /\ isEnabled' = config.enabled
  /\ lastOp' = Observed("activate", <<>>, NoChange)
  /\ UNCHANGED << clock, isHumanTyping, currentSession, typingSessions,
                  lastUserAction, lastWPM, lastTypingMode, lastCommitHash,
                  notifications, config, gitIdentity, analysed, dirty, index,
                  commits, nextHash, started, procs >>

\* the user runs cursorGit.enable or cursorGit.disable
InvokeEnableDisable ==
  /\ { "cursorGit.enable", "cursorGit.disable" } \subseteq extension.commands
  /\ SetEnabled

\* the user runs cursorGit.commitNow
InvokeCommitNow ==
  /\ "cursorGit.commitNow" \in extension.commands
  /\ CommitNow

\* the user runs cursorGit.showStatus: the settings are read and shown
InvokeShowStatus ==
  /\ "cursorGit.showStatus" \in extension.commands
  /\ lastOp' = Observed("showStatus", <<>>, NoChange)
  /\ UNCHANGED << clock, detVars, gitVars >>

\* deactivation: deactivate() disposes the change detector and the host
\* disposes context.subscriptions, the commands among them
Deactivate ==
  /\ extension.phase = "active"
  /\ extension' = [ phase |-> "deactivated", commands |-> {} ]
  /\ subscribed' = FALSE
  /\ SetDet(FinalizeCurrentSession(DetState, clock))
  /\ lastOp' = Observed("dispose", <<>>, NoChange)
  /\ UNCHANGED << clock, isEnabled, lastCommitHash, notifications, config,
                  gitIdentity, analysed, dirty, index, commits, nextHash,
                  started, procs >>

InitExtension ==
  /\ clock = 0
  /\ isEnabled = TRUE
  /\ subscribed = FALSE
  /\ isHumanTyping = TRUE
  /\ currentSession = <<>>
  /\ typingSessions = <<>>
  /\ lastUserAction = 0
  /\ lastWPM = <<>>
  /\ lastTypingMode = <<>>
  /\ lastOp = Observed("init", <<>>, NoChange)
  /\ lastCommitHash = 0
  /\ notifications = <<>>
  /\ dirty = {}
  /\ index = {}
  /\ commits = <<>>
  /\ nextHash = 0
  /\ started = 0
  /\ gitIdentity = [ name |-> UserName, email |-> UserEmail ]
  /\ analysed = NoAnalysis
  /\ extension = NotActivated
  /\ config \in { c \in Configs : ~c.useCursorAI }
  /\ procs = [ p \in 1..MaxProcs |-> ProcIdle ]

NextExtension ==
  \/ Activate
  \/ InvokeEnableDisable
  \/ ConfigurationChanged
  \/ InvokeCommitNow
  \/ InvokeShowStatus
  \/ WorkTreeChange
  \/ StepCcStatus
  \/ Deactivate

SpecExtension == InitExtension /\ [][NextExtension]_vars

(* ---- a second commit while the notification of the first is shown ---- *)

\* the commit a save made of a.ts with the default identity, and the state
\* it leaves: its hash recorded and its notification shown
FirstCommit ==
  [ hash |-> 1, files |-> { PathTs },
    author |-> AIAuthor(UserName, UserEmail, aiAuthorSuffix),
    reads |-> [ name |-> UserName, email |-> UserEmail,
                suffix |-> aiAuthorSuffix, failed |-> FALSE ],
    by |-> "stageAndCommit", message |-> HeuristicMessage({ PathTs }),
    sessionsAtSave |-> << << >>, << >> >>, sessionsAt |-> << << >>, << >> >>,
    notice |-> 1 ]

InitRevert ==
  /\ clock = 0
  /\ isEnabled = TRUE
  /\ subscribed = TRUE
  /\ isHumanTyping = FALSE
  /\ currentSession = <<>>
  /\ typingSessions = <<>>
  /\ lastUserAction = 0
  /\ lastWPM = <<>>
  /\ lastTypingMode = <<>>
  /\ lastOp = Observed("init", <<>>, NoChange)
  /\ lastCommitHash = FirstCommit.hash
  /\ notifications = << FirstCommit.message >>
  /\ dirty = {}
  /\ index = {}
  /\ commits = << FirstCommit >>
  /\ nextHash = FirstCommit.hash
  /\ started = 0
  /\ gitIdentity = [ name |-> UserName, email |-> UserEmail ]
  /\ analysed = NoAnalysis
  /\ extension = Activated
  /\ config \in { c \in Configs : c.commitFrequency = "onSave" /\ ~c.useCursorAI }
  /\ procs = [ p \in 1..MaxProcs |-> ProcIdle ]

NextRevert ==
  \/ WorkTreeChange
  \/ DidSaveTextDocument
  \/ StepCdStatus
  \/ StepScStatus
  \/ StepScAdd
  \/ StepCcStatus
  \/ StepCfgName
  \/ StepCfgEmail
  \/ StepCommit
  \/ RevertSelected
  \/ StepRvConfirm
  \/ StepRvReset

SpecRevert == InitRevert /\ [][NextRevert]_vars

(* A repository nobody else touches, from the moment an agent has typed    *)
(* (the mode is AgentLikely): whatever is modified or staged is so before  *)
(* the first trigger, and triggers may overlap at their awaits.            *)
InitQuiet ==
  /\ clock = 0
  /\ isEnabled = TRUE
  /\ subscribed = TRUE
  /\ isHumanTyping = FALSE
  /\ currentSession = <<>>
  /\ typingSessions = <<>>
  /\ lastUserAction = 0
  /\ lastWPM = <<>>
  /\ lastTypingMode = <<>>
  /\ lastOp = Observed("init", <<>>, NoChange)
  /\ lastCommitHash = 0
  /\ notifications = <<>>
  /\ dirty \in SUBSET Paths
  /\ index \in SUBSET Paths
  /\ commits = <<>>
  /\ nextHash = 0
  /\ started = 0
  /\ gitIdentity = [ name |-> UserName, email |-> UserEmail ]
  /\ analysed = NoAnalysis
  /\ extension = Activated
  /\ config \in { c \in Configs : c.commitFrequency = "onSave" }
  /\ procs = [ p \in 1..MaxAttempts |-> ProcIdle ]

NextQuiet ==
  \/ DidSaveTextDocument
  \/ ChatCommit
  \/ StepCdStatus
  \/ StepScStatus
  \/ StepScAdd
  \/ StepCcStatus
  \/ StepGenStatus
  \/ StepGenModified
  \/ StepGenAdd
  \/ StepGenCmd
  \/ StepCfgName
  \/ StepCfgEmail
  \/ StepCommit

SpecQuiet == InitQuiet /\ [][NextQuiet]_vars

(* ------------------------------ claims --------------------------------- *)

LastBranch == lastOp.steps[Len(lastOp.steps)]

TextChanged == lastOp.op = "textChange" /\ lastOp.steps # <<>>

\* the session's computed WPM exceeds the threshold (Infinity when d = 0)
Fast(c, d) ==
  \/ d = 0 /\ c > 0
  \/ d > 0 /\ 12000 * c > speedThreshold * d
  \/ d > 0 /\ 12000 * c = speedThreshold * d /\ FloatRoundsAbove(c, d)

SessionElapsed == clock - currentSession[1].startTime

\* C1: every change that isHumanOnlyAction classifies as human, and every
\* undo event or undo/redo command, leaves the mode Human right after it is
\* processed, whatever the mode and the session were before.
C1_HumanImmediately ==
  /\ \A change \in Changes :
       IsHumanOnlyAction(change) => ProcessChange(DetState, change, clock).isHumanTyping
  /\ \A event \in Events :
       event.kind = "undo" => AnalyzeTypingSpeed(DetState, event, clock).isHumanTyping
  /\ lastOp.op \in { "undoEvent", "undoRedoCommand" } => isHumanTyping
  /\ TextChanged /\ LastBranch = "human" => isHumanTyping

\* a deletion arrived while the mode was AgentLikely and a session was open
C1_Witness ==
  /\ TextChanged /\ LastBranch = "human"
  /\ lastOp.lastChange.text = 0 /\ lastOp.lastChange.rangeLength > 0
  /\ lastOp.modeBefore = FALSE
  /\ currentSession # <<>>
  /\ isHumanTyping

SpeedVerdictAI ==
  /\ lastOp.op = "textChange"
  /\ currentSession # <<>>
  /\ currentSession[1].characters >= minCharacters
  /\ Fast(currentSession[1].characters, SessionElapsed)

\* C2 as stated: the mode starts Human and becomes AgentLikely only in a
\* processChange step with enough characters and a WPM above the threshold.
C2_AgentOnlyBySpeed ==
  /\ isHumanTyping = TRUE
  /\ [][ (isHumanTyping /\ ~isHumanTyping') => SpeedVerdictAI' ]_vars

\* C2 amended: the mode starts Human and becomes AgentLikely only in a
\* processChange step with enough characters and a WPM above the threshold,
\* or by a call of the public override setAIFlag(true).
C2_AgentOnlyBySpeedOrOverride ==
  /\ isHumanTyping = TRUE
  /\ [][ (isHumanTyping /\ ~isHumanTyping') =>
          (lastOp'.op = "setAIFlag" \/ SpeedVerdictAI') ]_vars

\* a text change turned the mode from Human to AgentLikely
C2_Witness ==
  /\ lastOp.op = "textChange" /\ lastOp.modeBefore = TRUE /\ ~isHumanTyping
  /\ SpeedVerdictAI /\ SessionElapsed > 0

\* C3: a save handled while the mode is Human makes no backend add or commit
\* call and never enters the GitManager; add and commit calls of a save only
\* occur when the mode was AgentLikely at the save.
C3_SaveCommitsOnlyAgent ==
  \A p \in DOMAIN procs :
    procs[p].origin = "save" =>
      /\ (procs[p].addCalled \/ procs[p].commitCalled) => procs[p].modeAtStart = FALSE
      /\ procs[p].modeAtStart = TRUE =>
           procs[p].pc = "done" /\ procs[p].entered = "none"

\* a save in AgentLikely mode went through to a backend commit call
C3_Witness ==
  \E p \in DOMAIN procs :
    /\ procs[p].origin = "save" /\ procs[p].modeAtStart = FALSE
    /\ procs[p].addCalled /\ procs[p].commitCalled
    /\ config.commitFrequency \in { "onSave", "immediate" }

\* C4 as stated: a change classified as a human action resets the active
\* session, so no character accumulated before it is counted later.
C4_SessionResetOnHuman ==
  TextChanged /\ LastBranch = "human" => SessionChars(DetState) = 0

\* C5 as stated: a change evaluated while the session's elapsed time is 0
\* leaves the mode unchanged.
C5_ZeroElapsedInsufficient ==
  ( /\ TextChanged
    /\ LastBranch \in { "ai", "slow", "insufficient" }
    /\ \A i \in 1..(Len(lastOp.steps) - 1) :
         lastOp.steps[i] \in { "open", "timeout", "insufficient" }
    /\ SessionElapsed = 0 )
  => isHumanTyping = lastOp.modeBefore

\* C6: a non-human change after which the session holds fewer than
\* minCharacters characters leaves the mode as it was, for every elapsed
\* time and prior mode.
C6_BelowMinimumKeepsMode ==
  \A change \in Changes :
    LET after == ProcessChange(DetState, change, clock)
    IN (~IsHumanOnlyAction(change) /\ SessionChars(after) < minCharacters)
         => after.isHumanTyping = isHumanTyping

\* characters were added to a running session below the minimum while the
\* mode was AgentLikely, and it stayed AgentLikely
C6_Witness ==
  /\ lastOp.op = "textChange" /\ lastOp.steps = << "insufficient" >>
  /\ lastOp.modeBefore = FALSE /\ ~isHumanTyping
  /\ SessionChars(DetState) < minCharacters
  /\ SessionElapsed > 0

\* C7: a change inserting more than 50 characters and deleting none sets
\* the mode to Human and leaves the typing session as it was.
C7_PasteIsHuman ==
  \A change \in Changes :
    LET after == ProcessChange(DetState, change, clock)
    IN (change.text > 50 /\ change.rangeLength = 0)
         => after.isHumanTyping /\ after.currentSession = currentSession

\* a paste arrived in AgentLikely mode during a session fast enough for an
\* AgentLikely verdict
C7_Witness ==
  /\ TextChanged /\ LastBranch = "human"
  /\ lastOp.lastChange.text > 50 /\ lastOp.lastChange.rangeLength = 0
  /\ lastOp.modeBefore = FALSE /\ isHumanTyping
  /\ currentSession # <<>>
  /\ currentSession[1].characters >= minCharacters
  /\ Fast(currentSession[1].characters, SessionElapsed)

C9_NoChangesFailsFast ==
  \A p \in DOMAIN procs :
    ( procs[p].pc = "done" /\ procs[p].entered = "stageAndCommit"
      /\ procs[p].modifiedFiles = {} )
    => /\ ~procs[p].result.success
       /\ procs[p].result.error = "No modified files"
       /\ ~procs[p].addCalled /\ ~procs[p].commitCalled

\* a stageAndCommit call found no changed file and returned the failure
C9_Witness ==
  \E p \in DOMAIN procs :
    /\ procs[p].pc = "done" /\ procs[p].entered = "stageAndCommit"
    /\ procs[p].modifiedFiles = {}
    /\ procs[p].result.error = "No modified files"

\* C10 as stated: an orchestration in which a backend add call failed ends
\* with the 'Failed to stage files' failure and makes no commit call.
C10_AddFailureAborts ==
  \A p \in DOMAIN procs :
    (procs[p].pc = "done" /\ procs[p].addFailed)
    => /\ procs[p].result.error = "Failed to stage files"
       /\ ~procs[p].commitCalled

\* C11: a call whose commitChanges read an empty staged list ends with the
\* 'No staged changes' failure, which differs from the 'No modified files'
\* failure, and makes no backend commit call; when the exclusion patterns
\* removed every changed path, that is reached without any backend add call.
C11_NothingStagedFails ==
  \A p \in DOMAIN procs :
    ( procs[p].pc = "done" /\ procs[p].stagedRead = "empty" )
    => /\ procs[p].result = NothingStagedResult
       /\ procs[p].result.error = "No staged changes"
       /\ procs[p].result.error # NoChangesResult.error
       /\ ~procs[p].commitCalled
       /\ ( /\ procs[p].entered = "stageAndCommit"
            /\ FilterExcludedFiles(procs[p].modifiedFiles, excludePatterns) = {} )
          => ~procs[p].addCalled

\* stageAndCommit found only an excluded path changed, staged nothing and
\* failed with 'No staged changes'
C11_Witness ==
  \E p \in DOMAIN procs :
    /\ procs[p].pc = "done" /\ procs[p].entered = "stageAndCommit"
    /\ procs[p].modifiedFiles = { PathLog }
    /\ config.autoStage
    /\ procs[p].stagedRead = "empty"
    /\ ~procs[p].addCalled /\ ~procs[p].commitCalled
    /\ procs[p].result.error = "No staged changes"

\* C12 as stated: a stageAndCommit call that returns a failed outcome has
\* left the repository as it found it: it moved no path into the index and
\* created no commit.
C12_FailureLeavesRepository ==
  \A p \in DOMAIN procs :
    ( /\ procs[p].pc = "done" /\ procs[p].entered = "stageAndCommit"
      /\ procs[p].result.kind = "return" /\ ~procs[p].result.success )
    => /\ procs[p].added = {}
       /\ procs[p].result.hash = 0

\* C13: the generator is called only without a caller-supplied message and
\* with useCursorAI on; when it throws or returns nothing usable the call
\* goes on with the heuristic message up to the backend commit call, a
\* successful outcome carries the heuristic message, and no outcome carries
\* the generator's error.  A caller-supplied message is the message of the
\* commit, and the generator is not called for it.
C13_GeneratorFallback ==
  \A p \in DOMAIN procs :
    /\ procs[p].genCalled => ( ~procs[p].custom /\ config.useCursorAI )
    /\ ( procs[p].genFailed /\ procs[p].pc \in { "cfg_name", "cfg_email", "commit" } )
       => procs[p].message = HeuristicMessage(procs[p].stagedFiles)
    /\ ( procs[p].genFailed /\ procs[p].pc = "done" )
       => /\ procs[p].commitCalled
          /\ procs[p].result.kind = "return"
          /\ procs[p].result.error \notin { GeneratorError.message, GeneratorThrown.message }
          /\ procs[p].result.success => procs[p].result.message.src = "heuristic"
    /\ procs[p].custom
       => /\ ~procs[p].genCalled
          /\ ( procs[p].pc = "done" /\ procs[p].result.success )
             => procs[p].result.message = Msg("custom", {})

\* the generator failed and the commit was created with the heuristic message
C13_Witness ==
  \E p \in DOMAIN procs :
    /\ procs[p].pc = "done" /\ procs[p].genFailed
    /\ procs[p].result.success /\ procs[p].result.hash # 0
    /\ procs[p].result.message.src = "heuristic"
    /\ commits[Len(commits)].message.src = "heuristic"

\* error strings of outcomes built from a value the backend threw
BackendErrors == { ErrorString(e) : e \in Thrown }

\* C14 as stated: a stageAndCommit call that starts right after another one
\* has finished, in a repository nobody touched in between, returns the
\* 'No modified files' or the 'No staged changes' failure.
C14_SecondCallShortCircuits ==
  \A p \in DOMAIN procs :
    ( /\ procs[p].pc = "done" /\ procs[p].entered = "stageAndCommit"
      /\ procs[p].previous # "none" )
    => procs[p].result \in { NoChangesResult, NothingStagedResult }

\* C14, amended: when the call before it created a commit, a stageAndCommit
\* call in the untouched repository creates no commit and returns a failed
\* outcome: 'No modified files', 'No staged changes', or the error of a
\* failed backend status read.
C14_NoSecondCommit ==
  \A p \in DOMAIN procs :
    ( /\ procs[p].pc = "done" /\ procs[p].entered = "stageAndCommit"
      /\ procs[p].previous = "committed" )
    => /\ ~procs[p].result.success
       /\ procs[p].result.hash = 0
       /\ ~procs[p].commitCalled
       /\ procs[p].result.error \in
            { NoChangesResult.error, NothingStagedResult.error } \cup BackendErrors

\* a second call after a committed first one found nothing staged
C14_Witness ==
  \E p \in DOMAIN procs :
    /\ procs[p].pc = "done" /\ procs[p].entered = "stageAndCommit"
    /\ procs[p].previous = "committed"
    /\ procs[p].result = NothingStagedResult
    /\ Len(commits) = 1

\* C15 as stated, leaving aside attempts whose backend call failed: attempts
\* that overlap in the untouched repository create at most one commit, and
\* when one of them created it every other one ends with the 'No modified
\* files' or the 'No staged changes' failure.
C15_DuplicateAttemptsOneCommit ==
  /\ Len(commits) <= 1
  /\ \A p, q \in DOMAIN procs :
       ( /\ p # q
         /\ procs[p].pc = "done" /\ procs[p].entered = "stageAndCommit"
         /\ procs[q].pc = "done" /\ procs[q].entered = "stageAndCommit"
         /\ procs[p].result.hash # 0 )
       => \/ procs[q].result \in { NoChangesResult, NothingStagedResult }
          \/ procs[q].result.error \in BackendErrors \cup { StageFailedResult.error }

\* the path matches one of the exclusion patterns, as filterExcludedFiles
\* matches them
Excluded(file) ==
  \E k \in 1..Len(excludePatterns) : RegexTest(RegexOf(excludePatterns[k]), file)

\* C16 as stated: no commit made through stageAndCommit contains a path that
\* matches an exclusion pattern.
C16_NoExcludedPathCommitted ==
  \A i \in 1..Len(commits) :
    commits[i].by = "stageAndCommit" => \A file \in commits[i].files : ~Excluded(file)

\* C17 as stated: every commit's author is the ambient user.name followed
\* by the suffix, with the ambient user.email, as they were when the commit
\* derived its author.
C17_AuthorIsAmbientIdentity ==
  \A i \in 1..Len(commits) :
    commits[i].author =
      [ name |-> << commits[i].reads.name, commits[i].reads.suffix >>,
        email |-> commits[i].reads.email ]

\* C17, amended: the author is derived at each commit from the values git
\* config and the settings hold then: an unset user.name gives 'Unknown', an
\* unset user.email gives 'unknown@example.com', and a failed read of either
\* gives both placeholders; the suffix follows the name.
C17_AuthorDerivedPerCommit ==
  \A i \in 1..Len(commits) :
    LET r == commits[i].reads
        name == IF r.failed \/ r.name = "" THEN "Unknown" ELSE r.name
        email == IF r.failed \/ r.email = "" THEN "unknown@example.com" ELSE r.email
    IN /\ r.suffix \in Suffixes
       /\ commits[i].author = [ name |-> << name, r.suffix >>, email |-> email ]

\* two commits whose authors differ in name and in suffix: both changes
\* were made between the two commits
C17_Witness ==
  /\ Len(commits) = 2
  /\ commits[1].author = [ name |-> << "dev", "(agent)" >>, email |-> "dev@example.com" ]
  /\ commits[2].author = [ name |-> << "ops", "(bot)" >>, email |-> "ops@example.com" ]

\* C19: a revertLastCommit whose backend reset succeeds returns true and
\* leaves the branch one commit shorter, with the working tree as it was and
\* the reverted paths staged; one whose reset fails returns false, throws
\* nothing and leaves branch, index and working tree as they were.
C19_RevertIsSoftResetOfOne ==
  [][ \A p \in DOMAIN procs :
        ( procs[p].pc = "rv_reset" /\ procs'[p].pc = "done" )
        => /\ procs'[p].result.kind = "return"
           /\ procs'[p].result.success
              => /\ Len(commits) >= 1
                 /\ Len(commits') = Len(commits) - 1
                 /\ \A i \in 1..Len(commits') : commits'[i] = commits[i]
                 /\ dirty' = dirty
                 /\ index' = index \cup commits[Len(commits)].files
           /\ ~procs'[p].result.success
              => /\ commits' = commits /\ dirty' = dirty /\ index' = index ]_vars

\* the one commit of the branch was reverted: the branch is back at its
\* start and the committed path is staged again
C19_Witness ==
  \E p \in DOMAIN procs :
    /\ procs[p].pc = "done" /\ procs[p].origin = "revert"
    /\ procs[p].result.kind = "return" /\ procs[p].result.success
    /\ nextHash = 1 /\ commits = <<>>
    /\ index = { PathTs }

\* C18: a chat commit request enters stageAndCommit and a commitNow command
\* enters commitChanges whatever the mode and the commitFrequency setting
\* are, and each ends with the outcome the GitManager returned.
C18_ExplicitCommitNotGated ==
  \A p \in DOMAIN procs :
    procs[p].origin \in { "chat", "commitNow" }
    => /\ procs[p].pc # "idle"
       /\ procs[p].entered =
            IF procs[p].origin = "chat" THEN "stageAndCommit" ELSE "commitChanges"
       /\ procs[p].pc = "done"
          => /\ procs[p].result.kind = "return"
             /\ procs[p].result # NoResult

\* a chat request made in Human mode under the manual policy created a commit
C18_Witness ==
  \E p \in DOMAIN procs :
    /\ procs[p].pc = "done" /\ procs[p].origin = "chat"
    /\ procs[p].modeAtStart = TRUE
    /\ config.commitFrequency = "manual"
    /\ procs[p].result.success /\ procs[p].result.hash # 0

CommitTypes == { "feat", "fix", "docs", "style", "refactor", "test", "chore" }

HasStatus(list, status) == \E i \in 1..Len(list) : list[i].status = status

\* the type the stated order gives, "newly created" and "deleted" being
\* what happened to the staged files
StatedType(list) ==
  LET files == PathsOf(list)
  IN IF HasTestFiles(files) /\ ~HasStatus(list, "created") THEN "test"
     ELSE IF HasDocFiles(files) THEN "docs"
     ELSE IF HasStyleFiles(files) THEN "style"
     ELSE IF HasConfigFiles(files) \/ HasBuildFiles(files) THEN "chore"
     ELSE IF HasStatus(list, "deleted") /\ ~HasStatus(list, "created") THEN "refactor"
     ELSE IF HasFixFiles(files) THEN "fix"
     ELSE "feat"

\* C20 as stated: the synthesized type is one of the seven types and is the
\* first match of the stated order for the staged files; ["a.test.ts"] gives
\* test and ["README.md"] gives docs with description "update .md files".
C20_TypeByFirstMatch ==
  analysed.called
  => /\ analysed.type \in CommitTypes
     /\ analysed.type = StatedType(analysed.files)
     /\ PathsOf(analysed.files) = << PathReadme >>
        => /\ analysed.type = "docs"
           /\ analysed.description = << "u", "p", "d", "a", "t", "e", " ", ".", "m", "d", " ", "f", "i", "l", "e", "s" >>

\* the description the stated rules give, "newly created" and "deleted"
\* being what happened to the staged files
StatedDescription(list) ==
  LET files == PathsOf(list)
      exts == UniqueExtensions(files)
      text == IF HasStatus(list, "created") /\ HasStatus(list, "deleted")
                THEN TextAddAndRemove
              ELSE IF HasStatus(list, "created") THEN TextAddNew
              ELSE IF HasStatus(list, "deleted") THEN TextRemove
              ELSE IF Len(exts) = 1 THEN TextUpdate \o << " " >> \o exts[1] \o TextFiles
              ELSE IF Len(exts) > 1 THEN TextUpdate \o TextMultipleTypes
              ELSE TextUpdate \o TextFiles
  IN IF Len(list) > 1
     THEN text \o << " ", "(" >> \o NumberText(Len(list)) \o TextFilesClose
     ELSE text

\* C21 as stated: the description begins 'add new files' when the staged
\* files are newly created, 'remove files' when they are deleted and 'add and
\* remove files' when both occur, ' (N files)' follows exactly when N > 1,
\* and the newly created x.ts and y.ts give feat and 'add new files (2 files)'.
C21_DescriptionByStatus ==
  analysed.called
  => /\ analysed.description = StatedDescription(analysed.files)
     /\ EndsWith(analysed.description, TextFilesClose) <=> Len(analysed.files) > 1
     /\ analysed.files = << [ path |-> PathX, status |-> "created" ],
                            [ path |-> PathY, status |-> "created" ] >>
        => /\ analysed.type = "feat"
           /\ analysed.description = << "a", "d", "d", " ", "n", "e", "w", " ", "f", "i", "l", "e", "s", " ", "(", "2", " ", "f", "i", "l", "e", "s", ")" >>

\* the template with its placeholders filled in
StatedMessage(template, type, description) ==
  ReplaceFirst(ReplaceFirst(template, DescriptionPlaceholder, description),
               TypePlaceholder, TypeText(type))

\* C22 as stated: for every template the heuristic message is the template
\* with {description} replaced by the synthesized description and {type} by
\* the synthesized type; the template 'AI: {description}' gives a message
\* that starts with 'AI: '.
C22_MessageIsFilledTemplate ==
  analysed.called
  => /\ analysed.message =
          StatedMessage(analysed.template, analysed.type, analysed.description)
     /\ analysed.template = TemplateAIPrefix
        => StartsWith(analysed.message, << "A", "I", ":", " " >>)

\* the orderings of a list
PermutationsOf(list) ==
  { [ i \in 1..Len(list) |-> list[f[i]] ] :
      f \in { g \in [ 1..Len(list) -> 1..Len(list) ] :
                \A i, j \in 1..Len(list) : i # j => g[i] # g[j] } }

\* C23: the result of the message synthesizer for a list of paths is the
\* result for every permutation of that list (and so for the same list
\* again), and a call changes nothing of the detector, the repository, the
\* configuration or the commit attempts.
C23_SynthesizerDeterministic ==
  /\ [](analysed.called
        => \A files \in PermutationsOf(PathsOf(analysed.files)) :
             AnalyzeChanges(files) =
               [ type |-> analysed.type, description |-> analysed.description ])
  /\ [][UNCHANGED << clock, detVars, lastOp, lastCommitHash, notifications, config,
                     gitIdentity, dirty, index, commits, nextHash, started, procs >>]_vars

\* two files of different extensions were analysed, extension, in the order in which
\* the stylesheet comes second
C23_Witness ==
  /\ analysed.called
  /\ PathsOf(analysed.files) = << PathTs, PathCss >>
  /\ analysed.type = "style"
  /\ analysed.description = TextUpdate \o TextMultipleTypes
                               \o << " ", "(", "2" >> \o TextFilesClose

\* a change that is not a human action brings the running session to 20
\* characters 2000 ms after the session started
TwentyOverTwoSeconds(change) ==
  /\ currentSession # <<>>
  /\ ~IsHumanOnlyAction(change)
  /\ SessionElapsed = 2000
  /\ currentSession[1].characters + change.text = 20

\* C24 as stated: a session that has accumulated 20 characters over 2000 ms,
\* evaluated with a minimum of at most 20 characters and threshold 150, sets
\* the mode to AgentLikely.
C24_TwentyInTwoSecondsIsAgent ==
  \A change \in Changes :
    TwentyOverTwoSeconds(change)
    => ProcessChange(DetState, change, clock).isHumanTyping = FALSE

\* C24 amended: a session that has accumulated 20 characters over 2000 ms,
\* evaluated with a minimum of at most 20 characters and threshold 150,
\* computes 120 WPM, which is not above the threshold, and sets the mode to
\* Human.
C24_TwentyInTwoSecondsIsHuman ==
  /\ minCharacters <= 20 /\ speedThreshold = 150
  /\ \A change \in Changes :
       TwentyOverTwoSeconds(change)
       => LET after == ProcessChange(DetState, change, clock)
          IN /\ SessionChars(after) = 20
             /\ after.isHumanTyping = TRUE

\* the evaluation of 20 characters over 2000 ms turned the mode from
\* AgentLikely to Human
C24_Witness ==
  /\ lastOp.op = "textChange" /\ lastOp.steps = << "slow" >>
  /\ lastOp.modeBefore = FALSE /\ isHumanTyping
  /\ SessionChars(DetState) = 20
  /\ SessionElapsed = 2000

\* time gaps between two changes that are no longer than the idle timeout
ShortGaps == { 0, 500, sessionTimeout }

\* C25 as stated: of two consecutive changes that are not human actions and
\* whose time gap is at most sessionTimeout, the second belongs to the
\* session of the first: the session keeps its start and the second change
\* adds its characters to the running total.
C25_ShortGapSameSession ==
  \A first, second \in Changes, gap \in ShortGaps :
    (~IsHumanOnlyAction(first) /\ ~IsHumanOnlyAction(second))
    => LET one == ProcessChange(DetState, first, clock)
           two == ProcessChange(one, second, clock + gap)
       IN /\ two.currentSession # <<>>
          /\ two.currentSession[1].startTime = one.currentSession[1].startTime
          /\ two.currentSession[1].characters =
               one.currentSession[1].characters + second.text

\* the history after the running session was finalized at the current time
HistoryWithRunningSession ==
  LET s == currentSession[1]
      pushed == Append(typingSessions,
                       [ timestamp |-> s.startTime, characters |-> s.characters,
                         duration |-> clock - s.startTime ])
  IN IF Len(pushed) > 10 THEN SubSeq(pushed, Len(pushed) - 9, Len(pushed)) ELSE pushed

\* C27: there is at most one active session and the history holds at most
\* 10 entries; the history changes only by taking the running session, when
\* a change arrives after the session's timeout or when the detector is
\* disposed, and then keeps the most recent 10; after dispose there is no
\* active session; and the mode and the session a change leads to do not
\* depend on the history.
C27_OneSessionBoundedHistory ==
  /\ [](/\ Len(currentSession) <= 1
        /\ Len(typingSessions) <= 10
        /\ ~subscribed => currentSession = <<>>
        /\ \A change \in Changes :
             LET with == ProcessChange(DetState, change, clock)
                 without == ProcessChange([ DetState EXCEPT !.typingSessions = <<>> ],
                                          change, clock)
             IN /\ with.isHumanTyping = without.isHumanTyping
                /\ with.currentSession = without.currentSession)
  /\ [][ typingSessions' # typingSessions
          => /\ currentSession # <<>>
             /\ \/ lastOp'.op = "dispose"
                \/ /\ lastOp'.op = "textChange"
                   /\ clock - currentSession[1].startTime > sessionTimeout
             /\ typingSessions' = HistoryWithRunningSession ]_vars

\* the detector was disposed with a full history, whose entries are the
\* sessions of the last ten idle periods
C27_Witness ==
  /\ ~subscribed /\ lastOp.op = "dispose"
  /\ currentSession = <<>>
  /\ Len(typingSessions) = 10
  /\ \A i \in 1..10 : typingSessions[i].timestamp = i * (sessionTimeout + 1)
  /\ clock = MaxIdlePeriods * (sessionTimeout + 1)

\* a step of the classifier: the mode, the session or their bookkeeping change
ClassifierChanges == DetState' # DetState

\* a step of an orchestration: a trigger is handled or an awaited call returns
OrchestrationStep == procs' # procs

\* C26: no step of handleFileSave, stageAndCommit, commitChanges or
\* revertLastCommit changes the mode or the typing session, whether it
\* succeeds or fails, and every change of the classifier, also after a
\* failed commit, is the result of analyzeTypingSpeed for the event received
\* or of an undo/redo command.
C26_OrchestrationLeavesClassifier ==
  [][ /\ OrchestrationStep => UNCHANGED << isHumanTyping, currentSession, typingSessions >>
      /\ ClassifierChanges
         => \/ /\ lastOp'.op = "textChange"
               /\ DetState' = AnalyzeTypingSpeed(
                                 DetState,
                                 [ kind |-> "none",
                                   contentChanges |-> << lastOp'.lastChange >> ],
                                 clock)
            \/ /\ lastOp'.op = "undoRedoCommand"
               /\ DetState' = FlagHumanAction(DetState, clock) ]_vars

\* a save made in AgentLikely mode ended in a failed backend commit, and the
\* mode is still AgentLikely and the session still holds its characters
C26_Witness ==
  \E p \in DOMAIN procs :
    /\ procs[p].pc = "done" /\ procs[p].origin = "save"
    /\ procs[p].commitCalled /\ ~procs[p].result.success
    /\ procs[p].modeAtStart = FALSE
    /\ isHumanTyping = FALSE
    /\ SessionChars(DetState) = 20

\* C28: with commitFrequency = manual a save never enters the GitManager and
\* makes no backend add or commit call, whatever the mode, and no edit event
\* or undo/redo command starts or advances an orchestration: nothing is
\* staged or committed.
C28_ManualNeverAutoCommits ==
  /\ [](config.commitFrequency = "manual"
        => /\ \A p \in DOMAIN procs :
                procs[p].origin = "save"
                => /\ procs[p].pc = "done" /\ procs[p].entered = "none"
                   /\ ~procs[p].addCalled /\ ~procs[p].commitCalled
           /\ index = {} /\ commits = <<>>)
  /\ [][ (config.commitFrequency = "manual" /\ (ClassifierChanges \/ lastOp' # lastOp))
          => UNCHANGED << procs, started, index, commits >> ]_vars

\* under the manual policy a save arrived in AgentLikely mode with modified
\* files in the working tree, and nothing was committed
C28_Witness ==
  \E p \in DOMAIN procs :
    /\ config.commitFrequency = "manual" /\ isEnabled
    /\ procs[p].pc = "done" /\ procs[p].origin = "save"
    /\ procs[p].modeAtStart = FALSE
    /\ dirty # {}
    /\ commits = <<>>

\* C29 as stated: with commitFrequency = immediate the edit that drives the
\* mode to AgentLikely starts a commit attempt, without a save; with onSave
\* a commit attempt starts only at a save.
C29_ImmediateCommitsOnDetection ==
  [][ /\ ( /\ config.commitFrequency = "immediate"
           /\ isEnabled
           /\ isHumanTyping /\ ~isHumanTyping'
           /\ lastOp'.op = "textChange" )
         => started' = started + 1
      /\ config.commitFrequency = "onSave"
         => \A p \in DOMAIN procs :
              (procs[p].pc # procs'[p].pc /\ procs'[p].entered \in { "stageAndCommit", "commitChanges" })
              => procs'[p].origin = "save" ]_vars

\* C30: while the detector's isEnabled is false, the mode and the typing
\* session change by no text-change event (only by an undo/redo command), and
\* a save ends at once without entering the GitManager or calling add or
\* commit; while it is true, a save in AgentLikely mode under a policy other
\* than manual starts an orchestration, also after it was false before.
C30_DisabledIsInert ==
  [][ /\ ~isEnabled
         => /\ (isHumanTyping' # isHumanTyping \/ currentSession' # currentSession)
               => lastOp'.op = "undoRedoCommand"
            /\ \A p \in DOMAIN procs :
                 (started' = started + 1 /\ procs'[p] # procs[p] /\ procs'[p].origin = "save")
                 => /\ procs'[p].pc = "done" /\ procs'[p].entered = "none"
                    /\ ~procs'[p].addCalled /\ ~procs'[p].commitCalled
      /\ ( /\ isEnabled /\ ~isHumanTyping /\ config.commitFrequency # "manual"
           /\ started' = started + 1 )
         => \A p \in DOMAIN procs :
              (procs'[p] # procs[p] /\ procs'[p].origin = "save")
              => procs'[p].pc = "cd_status" ]_vars

\* the disabled setting has reached the detector, and a save made in
\* AgentLikely mode under the onSave policy with modified files was ignored
C30_Witness ==
  \E p \in DOMAIN procs :
    /\ ~isEnabled /\ ~config.enabled /\ lastOp.op = "disabled"
    /\ config.commitFrequency = "onSave"
    /\ procs[p].pc = "done" /\ procs[p].origin = "save"
    /\ procs[p].modeAtStart = FALSE /\ procs[p].entered = "none"
    /\ dirty # {}
    /\ commits = <<>>

\* a save was found eligible (enabled, policy not manual, mode AgentLikely)
\* and its handler waits for the first status call, while exactly the paths
\* of the set are changed and not excluded
EligibleSave(paths) ==
  \E p \in DOMAIN procs :
    /\ procs[p].origin = "save" /\ procs[p].pc = "cd_status"
    /\ isEnabled /\ config.commitFrequency # "manual" /\ procs[p].modeAtStart = FALSE
    /\ paths = FilterExcludedFiles(StatusChanged, excludePatterns)

\* a commit holds the paths and a notification carries its message
CommittedAndNotified(paths) ==
  \E i \in 1..Len(commits) :
    /\ paths \subseteq commits[i].files
    /\ \E j \in 1..Len(notifications) : notifications[j] = commits[i].message

\* a backend call of a finished orchestration threw
BackendCallFailed ==
  \E p \in DOMAIN procs :
    /\ procs[p].pc = "done"
    /\ \/ procs[p].statusFailed
       \/ procs[p].addFailed
       \/ procs[p].stagedRead = "failed"
       \/ procs[p].commitCalled /\ ~procs[p].result.success

\* C31 as stated: an eligible save made while some changed path is not
\* excluded leads, unless a backend call fails, to a commit that holds those
\* paths and to a notification carrying its message.
C31_EligibleSaveCommits ==
  \A paths \in (SUBSET Paths) \ { {} } :
    EligibleSave(paths) ~> (CommittedAndNotified(paths) \/ BackendCallFailed)

\* C31 amended: an eligible save made with autoStage on while some changed
\* path is not excluded leads, unless a backend call fails, to a commit that
\* holds those paths and to a notification carrying its message.
C31_EligibleSaveCommitsWhenStaging ==
  \A paths \in (SUBSET Paths) \ { {} } :
    (EligibleSave(paths) /\ config.autoStage)
      ~> (CommittedAndNotified(paths) \/ BackendCallFailed)

\* a save in AgentLikely mode with autoStage on ended in a commit of the
\* changed file, made without any failed call, and the notification was
\* issued
C31_Witness ==
  \E p \in DOMAIN procs :
    /\ procs[p].pc = "done" /\ procs[p].origin = "save"
    /\ config.autoStage /\ ~BackendCallFailed
    /\ procs[p].added = { PathTs }
    /\ procs[p].result.success /\ procs[p].result.hash # 0
    /\ CommittedAndNotified({ PathTs })

\* C40: an orchestration that ended with the NoChanges outcome ('No modified
\* files') had a status call that succeeded and reported no path; a status
\* call that threw never ends in NoChanges.
C40_NoChangesOnlyAfterEmptyStatus ==
  \A p \in DOMAIN procs :
    (procs[p].pc = "done" /\ procs[p].entered = "stageAndCommit"
       /\ procs[p].result = NoChangesResult)
      => ~procs[p].statusFailed

\* C33: when cursorGit.commitNow reads the status of a working tree that has
\* modified paths not matched by an exclusion pattern, with autoStage on and
\* the status call succeeding, it does not end there: it goes on to make a
\* commit of those paths, staged beforehand or not.
C33_CommitNowCommitsModified ==
  [][ \A p \in DOMAIN procs :
        ( /\ procs[p].origin = "commitNow" /\ procs[p].pc = "cc_status"
          /\ procs'[p] # procs[p]
          /\ config.autoStage
          /\ FilterExcludedFiles(dirty, excludePatterns) # {}
          /\ procs'[p].stagedRead # "failed" )
        => /\ procs'[p].pc # "done"
           /\ FilterExcludedFiles(dirty, excludePatterns) \subseteq procs'[p].stagedFiles
    ]_vars

\* C37: whenever an orchestration started by a save makes its backend
\* commit call, the mode is AgentLikely: no edit delivered while the handler
\* awaited its calls has set the mode to Human since the eligibility check.
C37_CommitsOnlyInAgentMode ==
  [][ \A p \in DOMAIN procs :
        ( /\ procs[p].origin = "save" /\ procs[p].pc = "commit"
          /\ procs'[p].commitCalled /\ ~procs[p].commitCalled )
        => isHumanTyping = FALSE
    ]_vars

\* C38: of two successive commits made by saves, the second save found the
\* typing sessions changed since the first commit: at least one insertion
\* was processed in between (no edit can have been evaluated AgentLikely
\* otherwise), so the eligibility was not reused.
C38_EligibilityConsumedByCommit ==
  \A j \in 2..Len(commits) :
    commits[j].sessionsAtSave # commits[j - 1].sessionsAt

\* C39: the soft reset started from the notification of a commit removes
\* that commit: it is applied only while the commit is still the last one of
\* the branch.
C39_RevertRemovesNotifiedCommit ==
  [][ \A p \in DOMAIN procs :
        ( /\ procs[p].origin = "revert" /\ procs[p].pc = "rv_reset"
          /\ commits' # commits )
        => commits[Len(commits)].notice = procs[p].notice
    ]_vars

\* the change just processed was evaluated: the session had reached
\* minCharacters and some time had elapsed since it started
Evaluated ==
  /\ currentSession' # currentSession
  /\ lastOp'.op = "textChange"
  /\ lastOp'.steps \in { << "ai" >>, << "slow" >> }
  /\ clock - currentSession'[1].startTime > 0

\* C35: an evaluation with c >= minCharacters characters over d > 0 ms sets
\* the mode from (c, d, threshold) alone: AgentLikely exactly when
\* 12000 * c > threshold * d, Human otherwise (also at equality), whatever
\* the mode was before.
C35_VerdictIsExactComparison ==
  [][ Evaluated =>
        LET c == currentSession'[1].characters
            d == clock - currentSession'[1].startTime
        IN /\ c >= minCharacters
           /\ isHumanTyping' = ~(12000 * c > speedThreshold * d)
    ]_vars

\* glob semantics: the pattern matches the whole path, '*' standing for any
\* run of characters, '?' for one character, any other character for itself
RECURSIVE GlobMatch(_, _)
GlobMatch(pattern, path) ==
  IF pattern = <<>> THEN path = <<>>
  ELSE IF Head(pattern) = "*"
       THEN \/ GlobMatch(Tail(pattern), path)
            \/ path # <<>> /\ GlobMatch(pattern, Tail(path))
  ELSE IF path = <<>> THEN FALSE
  ELSE /\ Head(pattern) = "?" \/ Head(pattern) = Head(path)
       /\ GlobMatch(Tail(pattern), Tail(path))

\* C36: the paths stageFiles passes to git add are the modified paths that
\* no exclusion pattern matches under glob semantics: a path is removed
\* exactly when some pattern matches the whole of it.
C36_FilterIsGlobExclusion ==
  [][ \A p \in DOMAIN procs :
        (procs[p].pc = "sc_status" /\ procs'[p].pc = "sc_add")
        => procs'[p].toAdd =
             { file \in procs'[p].modifiedFiles :
                 ~(\E k \in 1..Len(excludePatterns) :
                      GlobMatch(excludePatterns[k], file)) }
    ]_vars

PendingTimers == { p \in DOMAIN procs : procs[p].pc = "timer" }

\* the step is the listener run for an event it detects as AI-generated
QualifyingEdit ==
  /\ isEnabled /\ ShouldAutoCommit
  /\ \E event \in DeferredEvents : IsAIGeneratedChange(event) /\ DeferredChange(event)

ExpectedCommands ==
  { "cursorGit.enable", "cursorGit.disable", "cursorGit.commitNow",
    "cursorGit.showStatus" }

\* C34: from the return of activate() until deactivation the commands
\* cursorGit.enable, cursorGit.disable, cursorGit.commitNow and
\* cursorGit.showStatus are registered, whatever commands were run meanwhile.
C34_CommandsStayRegistered ==
  extension.phase = "active" => ExpectedCommands \subseteq extension.commands

\* the extension is active after commitNow has run to its end and
\* cursorGit.disable has reached the detector
C34_Witness ==
  /\ extension.phase = "active"
  /\ ExpectedCommands \subseteq extension.commands
  /\ ~isEnabled
  /\ \E p \in DOMAIN procs : procs[p].origin = "commitNow" /\ procs[p].pc = "done"
====
